---- MODULE Spec2Model ----
(***************************************************************************)
(* Entra ID single sign-on and role based access control of Uptime Kuma:   *)
(* the OIDC router (login and callback legs, the in-memory authSessions    *)
(* map and its sweep), the one-time login code exchanged over the socket,  *)
(* and the admin-only user management handlers.                            *)
(*                                                                         *)
(* Every handler is an async function: it runs without interruption up to  *)
(* its next await and other handlers run in between.  One action of the    *)
(* model is one such uninterrupted piece.  Storage (redbean-node), the      *)
(* settings store and the identity provider are collaborators outside the  *)
(* sources; each call to them is one atomic step:                          *)
(*   - R.findOne returns a copy (a bean) of the row it finds,              *)
(*   - R.store of a bean with an id updates, in the row with that id, the  *)
(*     fields the handler assigned; of a new bean it inserts a row,        *)
(*   - the unique index on user.entra_oid makes the insert throw.          *)
(***************************************************************************)
EXTENDS Integers, Sequences, FiniteSets, TLC

\* ------------------------------------------------------------- bounds
MaxLogins == 2        \* /login requests (each draws a fresh state token)
MaxCallbacks == 2     \* /callback requests
MaxTicks == 2         \* advances of the clock
MaxTasks == 2         \* socket events handled at the same time

\* ------------------------------------------------- program constants
SessionTTL == 10 * 60 * 1000     \* part_000:469
CodeTTL == 5 * 60 * 1000         \* part_000:609

Null == "null"                   \* null / undefined of a string valued field
NoTime == -1                     \* null of a datetime column
NoState == 0                     \* req.query.state absent
BogusState == MaxLogins + 1      \* a state token no /login ever issued

VARIABLES
    now,            \* Date.now()
    ticks,          \* clock advances so far
    authSessions,   \* the Map state -> pending session (part_000:372)
    nextState,      \* tokens drawn from generators.state() so far
    settings,       \* the settings store, the oidcEntra* keys
    users,          \* table user: Seq of rows, row i has id i
    loginCodes,     \* table oidc_login_code: code -> row
    nextCode,       \* login codes generated so far
    sockets,        \* socket -> [userID, userRole]
    lg,             \* /login requests
    cb,             \* /callback requests
    task,           \* socket event handlers
    probe,          \* inputs and result of a pure function under check
    answer          \* the last answer a user management handler sent

vars == <<now, ticks, authSessions, nextState, settings, users, loginCodes,
          nextCode, sockets, lg, cb, task, probe, answer>>

LoginIds == 1..MaxLogins
CallbackIds == 1..MaxCallbacks
TaskIds == 1..MaxTasks
SocketIds == {"s1", "s2", "s3"}

\* ------------------------------------------------------------ helpers
Range(s) == {s[i] : i \in DOMAIN s}

\* Array.prototype.includes
Includes(arr, x) == \E i \in DOMAIN arr : arr[i] = x

\* Array.prototype.every in the place of some
EveryIncluded(arr, other) == \A i \in DOMAIN arr : Includes(other, arr[i])

\* Array.prototype.some, for the predicate  g => other.includes(g)
SomeIncluded(arr, other) == \E i \in DOMAIN arr : Includes(other, arr[i])

\* a || b  for string valued operands ("" and null/undefined are falsy)
Falsy(v) == v = Null \/ v = ""
OrElse(a, b) == IF Falsy(a) THEN b ELSE a

\* ------------------------------------------------------------ storage
\* R.findOne("user", " entra_oid = ? AND active = 1", [oid]): the first row
ActiveByOid(oid) ==
    LET hit == {i \in DOMAIN users : users[i].entra_oid = oid /\ users[i].active}
    IN  IF oid = Null \/ hit = {} THEN 0
        ELSE CHOOSE i \in hit : \A j \in hit : i <= j

\* R.findOne("user", " id = ? AND active = 1 ", [id])
ActiveById(id) ==
    IF id \in DOMAIN users /\ users[id].active THEN id ELSE 0

\* R.findOne("user", " username = ?", [name])
UsernameTaken(name) == \E i \in DOMAIN users : users[i].username = name

\* the unique index on user.entra_oid (NULLs never collide)
OidIndexFree(oid) ==
    oid = Null \/ \A i \in DOMAIN users : users[i].entra_oid # oid

\* R.count("user", " role = 'admin' AND active = 1 AND id != ? ", [id])
AdminCountExcept(id) ==
    Cardinality({i \in DOMAIN users :
                    users[i].role = "admin" /\ users[i].active /\ i # id})

\* ------------------------------------------------------ message texts
MsgInvalidSession == "Invalid or expired authentication session"
MsgSessionExpired == "Authentication session expired"
MsgSsoDisabled == "Entra ID SSO is not enabled"
MsgNotAuthorized == "You are not authorized to access this application. Please contact your administrator."
MsgNotProvisioned == "Your account has not been provisioned. Please contact your administrator."
MsgAuthFailed == "Authentication failed. Please try again."
MsgLoginFailed == "Failed to initiate SSO login"

\* ------------------------------------------------------------- inputs
\* forwarded and raw protocol/host of a request (req.get, req.protocol)
RequestContexts ==
    { [fproto |-> "https", fhost |-> "kuma.example", protocol |-> "http", host |-> "10.0.0.5:3001"],
      [fproto |-> Null, fhost |-> Null, protocol |-> "http", host |-> "localhost:3001"] }

\* the claims of the ID tokens the provider may answer with; an e-mail
\* address is the sequence of its parts around "@"
IdTokens ==
    { [oid |-> "o1", sub |-> "sub1", preferred_username |-> <<"alice", "new.example">>,
       email |-> <<>>, name |-> "Alice A.", groups |-> <<"G1">>, hasGroups |-> TRUE],
      [oid |-> Null, sub |-> "o2", preferred_username |-> <<>>,
       email |-> <<"bob", "corp.example">>, name |-> "Bob", groups |-> <<>>, hasGroups |-> FALSE],
      [oid |-> "o3", sub |-> "sub3", preferred_username |-> <<"carol", "corp.example">>,
       email |-> <<>>, name |-> "Carol", groups |-> <<"G2", "G1">>, hasGroups |-> TRUE],
      [oid |-> "o1", sub |-> "sub1", preferred_username |-> <<>>,
       email |-> <<"alice", "corp.example">>, name |-> "Alice", groups |-> <<"G2">>,
       hasGroups |-> TRUE] }

\* query.error / query.error_description of a callback
QueryErrors == { [error |-> Null, error_description |-> Null],
                 [error |-> "access_denied", error_description |-> Null],
                 [error |-> "access_denied", error_description |-> "The user denied consent"] }

\* ------------------------------------------------------ initial state
NoSession == [codeVerifier |-> 0, nonce |-> 0, redirectUri |-> <<>>, expiresAt |-> NoTime]
NoUser == [id |-> 0, username |-> <<>>, entra_oid |-> Null, email |-> <<>>,
           display_name |-> Null, role |-> Null, active |-> FALSE,
           last_login |-> NoTime, password |-> Null]
NoInfo == [oid |-> Null, email |-> <<>>, name |-> Null]
NoResult == [param |-> "none", value |-> Null, code |-> 0]
\* no token exchange made
NoParams == [redirectUri |-> <<>>, code_verifier |-> 0, nonce |-> 0]
NoConf == [enabled |-> FALSE, allowedGroups |-> <<>>, defaultRole |-> Null,
           autoCreateUsers |-> FALSE]

\* the user table once local accounts exist and SSO has been in use: a
\* local admin, an SSO viewer, a local account named like an SSO user, and a
\* soft-deleted SSO account
InitUsers ==
    << [id |-> 1, username |-> <<"admin">>, entra_oid |-> Null, email |-> <<>>,
        display_name |-> Null, role |-> "admin", active |-> TRUE,
        last_login |-> NoTime, password |-> "hash"],
       [id |-> 2, username |-> <<"alice">>, entra_oid |-> "o1",
        email |-> <<"alice", "corp.example">>, display_name |-> "Alice",
        role |-> "viewer", active |-> TRUE, last_login |-> NoTime, password |-> Null],
       [id |-> 3, username |-> <<"bob">>, entra_oid |-> Null, email |-> <<>>,
        display_name |-> Null, role |-> "admin", active |-> TRUE,
        last_login |-> NoTime, password |-> "hash"],
       [id |-> 4, username |-> <<"carol">>, entra_oid |-> "o3",
        email |-> <<"carol", "corp.example">>, display_name |-> "Carol",
        role |-> "viewer", active |-> FALSE, last_login |-> NoTime, password |-> Null] >>

\* settings as saveOidcSettings leaves them with SSO switched on
EnabledSettings ==
    { [oidcEntraEnabled |-> TRUE, oidcEntraTenantId |-> "t1", oidcEntraClientId |-> "c1",
       oidcEntraClientSecret |-> "s1", oidcEntraAllowedGroups |-> g,
       oidcEntraDefaultRole |-> "viewer", oidcEntraAutoCreateUsers |-> a] :
        g \in {<<>>, <<"G1">>}, a \in BOOLEAN }

\* a /login request; stored keeps the session the request put into
\* authSessions, a /callback request keeps in used what its token exchange
\* was called with
IdleLogin == [pc |-> "idle", redirectUri |-> <<>>, status |-> "none", state |-> NoState,
              expiresAt |-> NoTime, stored |-> NoSession]
IdleCallback ==
    [pc |-> "idle", state |-> NoState, error |-> Null, session |-> NoSession,
     got |-> NoState, conf |-> NoConf, info |-> NoInfo, user |-> NoUser,
     exchanged |-> FALSE, wroteUser |-> FALSE, result |-> NoResult, used |-> NoParams]
\* no payload, no body of an answer
NoData == <<>>
NoBody == <<>>
NoCodeBean == [code |-> 0, user_id |-> 0, expires_at |-> NoTime, used |-> FALSE]
NoUserId == <<"number", 0>>
IdleTask ==
    [op |-> "none", pc |-> "idle", sock |-> "s1", code |-> 0, userId |-> NoUserId,
     role |-> Null, codeBean |-> NoCodeBean, userBean |-> NoUser, wrote |-> FALSE,
     ok |-> FALSE, msg |-> Null, respRole |-> Null, data |-> NoData]
NoClaims == [oid |-> Null, sub |-> Null, preferred_username |-> <<>>, email |-> <<>>,
             name |-> Null, groups |-> <<>>, hasGroups |-> FALSE]
NoAnswer == [op |-> "none", ok |-> FALSE, msg |-> Null, wrote |-> FALSE, body |-> NoBody]
NoProbe == [fn |-> "none", claims |-> NoClaims, result |-> "none"]

\* no socket has logged in
UnboundSockets == [s \in SocketIds |-> [userID |-> 0, userRole |-> Null]]

\* the two admins and the viewer have logged in, each on a socket of their own
BoundSockets ==
    [s \in SocketIds |->
        CASE s = "s1" -> [userID |-> 1, userRole |-> "admin"]
          [] s = "s2" -> [userID |-> 3, userRole |-> "admin"]
          [] OTHER    -> [userID |-> 2, userRole |-> "viewer"]]

\* login codes two callbacks stored at time 0: one of alice, one of carol,
\* whose account was deleted while her callback was on its way
IssuedCodes ==
    [c \in {1, 2} |->
        [user_id |-> IF c = 1 THEN 2 ELSE 4, expires_at |-> CodeTTL, used |-> FALSE]]

InitWith(socks, codes) ==
    /\ now = 0
    /\ ticks = 0
    /\ authSessions = <<>>
    /\ nextState = 0
    /\ users = InitUsers
    /\ loginCodes = codes
    /\ nextCode = Cardinality(DOMAIN codes)
    /\ sockets = socks
    /\ lg = [l \in LoginIds |-> IdleLogin]
    /\ cb = [r \in CallbackIds |-> IdleCallback]
    /\ task = [t \in TaskIds |-> IdleTask]
    /\ probe = NoProbe
    /\ answer = NoAnswer

Init ==
    /\ InitWith(UnboundSockets, <<>>)
    /\ settings \in EnabledSettings

\* ------------------------------------------------------------- clock
Tick(d) ==
    /\ ticks < MaxTicks
    /\ now' = now + d
    /\ ticks' = ticks + 1
    /\ UNCHANGED <<authSessions, nextState, settings, users, loginCodes, nextCode,
                   sockets, lg, cb, task, probe, answer>>

\* --------------------------------------------- authSessions and sweep
\* the comparison with <= : an entry goes at its expiresAt already
SweepKeepsBefore(session, t) == ~(session.expiresAt <= t)

\* for (const [key, session] of authSessions.entries())
\*     if (session.expiresAt < now) authSessions.delete(key)
SweepKeeps(session, t) == ~(session.expiresAt < t)

\* a timer whose callback removes nothing
SweepIdle ==
    /\ authSessions' = authSessions
    /\ UNCHANGED <<now, ticks, nextState, settings, users, loginCodes, nextCode,
                   sockets, lg, cb, task, probe, answer>>

\* a timer whose callback clears the whole registry
SweepEverything ==
    /\ authSessions' = <<>>
    /\ UNCHANGED <<now, ticks, nextState, settings, users, loginCodes, nextCode,
                   sockets, lg, cb, task, probe, answer>>

Sweep ==
    /\ authSessions' =
        [s \in {k \in DOMAIN authSessions : SweepKeeps(authSessions[k], now)}
            |-> authSessions[s]]
    /\ UNCHANGED <<now, ticks, nextState, settings, users, loginCodes, nextCode,
                   sockets, lg, cb, task, probe, answer>>

\* getOidcSettings(): the keys the router reads, with their defaults
getOidcSettings ==
    [enabled |-> settings.oidcEntraEnabled = TRUE,
     tenantId |-> settings.oidcEntraTenantId,
     clientId |-> settings.oidcEntraClientId,
     clientSecret |-> settings.oidcEntraClientSecret,
     allowedGroups |-> settings.oidcEntraAllowedGroups,
     defaultRole |-> OrElse(settings.oidcEntraDefaultRole, "viewer"),
     autoCreateUsers |-> settings.oidcEntraAutoCreateUsers # FALSE]

\* getRedirectUri(req)
getRedirectUri(req) ==
    << OrElse(req.fproto, req.protocol), "://", OrElse(req.fhost, req.host),
       "/auth/oidc/entra/callback" >>

\* ------------------------------------------- GET /auth/oidc/entra/login
\* up to the await of Issuer.discover
LoginReceive(l, req) ==
    /\ lg[l].pc = "idle"
    /\ LET conf == getOidcSettings IN
        lg' = [lg EXCEPT ![l] =
            IF ~conf.enabled
                THEN [@ EXCEPT !.pc = "done", !.status = "400"]
            ELSE IF Falsy(conf.tenantId) \/ Falsy(conf.clientId) \/ Falsy(conf.clientSecret)
                THEN [@ EXCEPT !.pc = "done", !.status = "500"]
            ELSE [@ EXCEPT !.pc = "discover", !.redirectUri = getRedirectUri(req)]]
    /\ UNCHANGED <<now, ticks, authSessions, nextState, settings, users, loginCodes,
                   nextCode, sockets, cb, task, probe, answer>>

\* Issuer.discover rejects: the catch block redirects with an error
LoginDiscoverFails(l) ==
    /\ lg[l].pc = "discover"
    /\ lg' = [lg EXCEPT ![l] = [@ EXCEPT !.pc = "done", !.status = "302 oidc_error",
                                         !.redirectUri = <<>>]]
    /\ UNCHANGED <<now, ticks, authSessions, nextState, settings, users, loginCodes,
                   nextCode, sockets, cb, task, probe, answer>>

\* the session with the lifetime of a login code in the place of its own
NewSessionShortLived(n, uri, t) ==
    [codeVerifier |-> n, nonce |-> n, redirectUri |-> uri, expiresAt |-> t + CodeTTL]

\* the session authSessions.set(state, ...) stores
NewSession(n, uri, t) ==
    [codeVerifier |-> n, nonce |-> n, redirectUri |-> uri, expiresAt |-> t + SessionTTL]

\* Issuer.discover resolves: verifier, state and nonce are drawn, the session
\* is stored and the browser is sent to the provider
LoginRegister(l) ==
    /\ lg[l].pc = "discover"
    /\ nextState' = nextState + 1
    /\ authSessions' =
        [s \in DOMAIN authSessions \cup {nextState'} |->
            IF s = nextState' THEN NewSession(nextState', lg[l].redirectUri, now)
            ELSE authSessions[s]]
    /\ lg' = [lg EXCEPT ![l] = [@ EXCEPT !.pc = "done", !.status = "302 provider",
                                         !.state = nextState', !.redirectUri = <<>>,
                                         !.expiresAt = now + SessionTTL,
                                         !.stored = authSessions'[nextState']]]
    /\ UNCHANGED <<now, ticks, settings, users, loginCodes, nextCode, sockets, cb,
                   task, probe, answer>>

\* ---------------------------------------- GET /auth/oidc/entra/callback
\* res.redirect("/dashboard?<param>=<value>"): the request is answered and
\* its locals are gone
Redirect(rec, param, value, code) ==
    [rec EXCEPT !.pc = "done", !.session = NoSession, !.conf = NoConf,
                !.info = NoInfo, !.user = NoUser,
                !.result = [param |-> param, value |-> value, code |-> code]]

\* the expiry check left out
SessionNeverExpired(session, t) == FALSE

\* session.expiresAt < Date.now()
SessionExpired(session, t) == session.expiresAt < t

\* only !state, without the lookup
StateMissing(state) == state = NoState

\* !state || !authSessions.has(state)
StateInvalid(state) == state = NoState \/ state \notin DOMAIN authSessions

\* authSessions.get(state): undefined for a key the map does not hold
SessionGet(state) ==
    IF state \in DOMAIN authSessions THEN authSessions[state] ELSE NoSession

\* the delete left out
SessionsKept(state) == authSessions

\* authSessions.delete(state)
SessionsWithout(state) ==
    [s \in DOMAIN authSessions \ {state} |-> authSessions[s]]

\* from the query to the first await: the provider's error, the state
\* validation with the one-time consumption of the session, its expiry
CallbackReceive(r, state, q) ==
    /\ cb[r].pc = "idle"
    /\ LET rec == [cb[r] EXCEPT !.state = state, !.error = q.error] IN
        IF ~Falsy(q.error) THEN
            /\ cb' = [cb EXCEPT ![r] =
                        Redirect(rec, "oidc_error", OrElse(q.error_description, q.error), 0)]
            /\ UNCHANGED authSessions
        ELSE IF StateInvalid(state) THEN
            /\ cb' = [cb EXCEPT ![r] = Redirect(rec, "oidc_error", MsgInvalidSession, 0)]
            /\ UNCHANGED authSessions
        ELSE
            /\ authSessions' = SessionsWithout(state)
            /\ LET session == SessionGet(state) IN
                cb' = [cb EXCEPT ![r] =
                    IF session = NoSession      \* undefined.expiresAt throws: the catch block
                        THEN Redirect(rec, "oidc_error", MsgAuthFailed, 0)
                    ELSE IF SessionExpired(session, now)
                        THEN Redirect([rec EXCEPT !.got = state],
                                      "oidc_error", MsgSessionExpired, 0)
                    ELSE [rec EXCEPT !.got = state, !.pc = "settings", !.session = session]]
    /\ UNCHANGED <<now, ticks, nextState, settings, users, loginCodes, nextCode,
                   sockets, lg, task, probe, answer>>

\* the settings read without the look at enabled
CallbackSettingsUnchecked(r) ==
    /\ cb[r].pc = "settings"
    /\ LET conf == getOidcSettings IN
        cb' = [cb EXCEPT ![r] =
            [@ EXCEPT !.pc = "discover",
                      !.conf = [enabled |-> conf.enabled,
                                allowedGroups |-> conf.allowedGroups,
                                defaultRole |-> conf.defaultRole,
                                autoCreateUsers |-> conf.autoCreateUsers]]]
    /\ UNCHANGED <<now, ticks, authSessions, nextState, settings, users, loginCodes,
                   nextCode, sockets, lg, task, probe, answer>>

\* const settings = await getOidcSettings(); if (!settings.enabled) ...
CallbackSettings(r) ==
    /\ cb[r].pc = "settings"
    /\ LET conf == getOidcSettings IN
        cb' = [cb EXCEPT ![r] =
            IF ~conf.enabled THEN Redirect(@, "oidc_error", MsgSsoDisabled, 0)
            ELSE [@ EXCEPT !.pc = "discover",
                           !.conf = [enabled |-> conf.enabled,
                                     allowedGroups |-> conf.allowedGroups,
                                     defaultRole |-> conf.defaultRole,
                                     autoCreateUsers |-> conf.autoCreateUsers]]]
    /\ UNCHANGED <<now, ticks, authSessions, nextState, settings, users, loginCodes,
                   nextCode, sockets, lg, task, probe, answer>>

\* await Issuer.discover(issuerUrl) resolves
CallbackDiscover(r) ==
    /\ cb[r].pc = "discover"
    /\ cb' = [cb EXCEPT ![r].pc = "exchange"]
    /\ UNCHANGED <<now, ticks, authSessions, nextState, settings, users, loginCodes,
                   nextCode, sockets, lg, task, probe, answer>>

\* the rejection of Issuer.discover with no catch block around it: the
\* handler ends and the request is left without an answer
CallbackDiscoverFailsUncaught(r) ==
    /\ cb[r].pc = "discover"
    /\ cb' = [cb EXCEPT ![r].pc = "hung"]
    /\ UNCHANGED <<now, ticks, authSessions, nextState, settings, users, loginCodes,
                   nextCode, sockets, lg, task, probe, answer>>

\* await Issuer.discover(issuerUrl) rejects: the catch block
CallbackDiscoverFails(r) ==
    /\ cb[r].pc = "discover"
    /\ cb' = [cb EXCEPT ![r] = Redirect(@, "oidc_error", MsgAuthFailed, 0)]
    /\ UNCHANGED <<now, ticks, authSessions, nextState, settings, users, loginCodes,
                   nextCode, sockets, lg, task, probe, answer>>

\* the redirect URI rebuilt as for a request that came through the proxy,
\* in the place of the one the session holds
ExchangeParamsRebuilt(rec) ==
    [redirectUri |-> getRedirectUri(CHOOSE req \in RequestContexts : req.fhost # Null),
     code_verifier |-> rec.session.codeVerifier, nonce |-> rec.session.nonce]

\* what client.callback is called with: session.redirectUri and
\* { code_verifier: session.codeVerifier, nonce: session.nonce }
ExchangeParams(rec) ==
    [redirectUri |-> rec.session.redirectUri,
     code_verifier |-> rec.session.codeVerifier, nonce |-> rec.session.nonce]

\* userInfo = { oid: claims.oid || claims.sub, email: claims.preferred_username
\*              || claims.email, name: claims.name, groups: claims.groups || [] }
UserInfo(claims) ==
    [oid |-> OrElse(claims.oid, claims.sub),
     email |-> IF claims.preferred_username # <<>> THEN claims.preferred_username
               ELSE claims.email,
     name |-> claims.name,
     groups |-> IF claims.hasGroups THEN claims.groups ELSE <<>>]

\* if (allowedGroups && allowedGroups.length > 0) {
\*     hasAllowedGroup = allowedGroups.some(g => userGroups.includes(g)) ... }
GroupCheckPasses(allowedGroups, userGroups) ==
    IF Len(allowedGroups) > 0 THEN SomeIncluded(allowedGroups, userGroups) ELSE TRUE

\* the last login of the claimed user recorded before the groups are checked
CallbackExchangeTouchingUser(r, claims) ==
    /\ cb[r].pc = "exchange"
    /\ LET userInfo == UserInfo(claims)
           rec == [cb[r] EXCEPT !.exchanged = TRUE, !.used = ExchangeParams(cb[r])]
           u == ActiveByOid(userInfo.oid) IN
        /\ users' = IF u = 0 THEN users ELSE [users EXCEPT ![u].last_login = now]
        /\ cb' = [cb EXCEPT ![r] =
            IF ~GroupCheckPasses(rec.conf.allowedGroups, userInfo.groups)
            THEN Redirect(rec, "oidc_error", MsgNotAuthorized, 0)
            ELSE [rec EXCEPT !.pc = "findUser",
                             !.info = [oid |-> userInfo.oid, email |-> userInfo.email,
                                       name |-> userInfo.name]]]
    /\ UNCHANGED <<now, ticks, authSessions, nextState, settings, loginCodes,
                   nextCode, sockets, lg, task, probe, answer>>

\* the token set taken without the check of the groups
CallbackExchangeUnchecked(r, claims) ==
    /\ cb[r].pc = "exchange"
    /\ LET userInfo == UserInfo(claims) IN
        cb' = [cb EXCEPT ![r] =
            [@ EXCEPT !.exchanged = TRUE, !.used = ExchangeParams(cb[r]), !.pc = "findUser",
                      !.info = [oid |-> userInfo.oid, email |-> userInfo.email,
                                name |-> userInfo.name]]]
    /\ UNCHANGED <<now, ticks, authSessions, nextState, settings, users, loginCodes,
                   nextCode, sockets, lg, task, probe, answer>>

\* await client.callback(...) resolves with the token set: the claims are
\* read and the group membership is checked
CallbackExchange(r, claims) ==
    /\ cb[r].pc = "exchange"
    /\ LET userInfo == UserInfo(claims)
           rec == [cb[r] EXCEPT !.exchanged = TRUE, !.used = ExchangeParams(cb[r])] IN
        cb' = [cb EXCEPT ![r] =
            IF ~GroupCheckPasses(rec.conf.allowedGroups, userInfo.groups)
            THEN Redirect(rec, "oidc_error", MsgNotAuthorized, 0)
            ELSE [rec EXCEPT !.pc = "findUser",
                             !.info = [oid |-> userInfo.oid, email |-> userInfo.email,
                                       name |-> userInfo.name]]]
    /\ UNCHANGED <<now, ticks, authSessions, nextState, settings, users, loginCodes,
                   nextCode, sockets, lg, task, probe, answer>>

\* await client.callback(...) rejects (bad code, nonce, signature)
CallbackExchangeFails(r) ==
    /\ cb[r].pc = "exchange"
    /\ cb' = [cb EXCEPT ![r] =
                Redirect([@ EXCEPT !.exchanged = TRUE, !.used = ExchangeParams(cb[r])],
                         "oidc_error", MsgAuthFailed, 0)]
    /\ UNCHANGED <<now, ticks, authSessions, nextState, settings, users, loginCodes,
                   nextCode, sockets, lg, task, probe, answer>>

\* R.dispense("user") filled in from the claims
NewUserBean(info, role, t) ==
    [id |-> 0, username |-> <<Head(info.email)>>, entra_oid |-> info.oid,
     email |-> info.email, display_name |-> info.name, role |-> role,
     active |-> TRUE, last_login |-> t, password |-> Null]

\* provisioning whatever the setting says
AlwaysProvision(conf) == TRUE

\* whether the callback goes on to provision a user it did not find
MayProvision(conf) == conf.autoCreateUsers

\* let user = await R.findOne("user", " entra_oid = ? AND active = 1", ...)
\* and what follows up to the next await
CallbackFindUser(r) ==
    /\ cb[r].pc = "findUser"
    /\ LET rec == cb[r]
           u == ActiveByOid(rec.info.oid) IN
        cb' = [cb EXCEPT ![r] =
            IF u = 0 THEN
                IF ~MayProvision(rec.conf)
                    THEN Redirect(rec, "oidc_error", MsgNotProvisioned, 0)
                ELSE IF rec.info.email = <<>>     \* undefined.split throws
                    THEN Redirect(rec, "oidc_error", MsgAuthFailed, 0)
                ELSE [rec EXCEPT !.pc = "checkUsername",
                                 !.user = NewUserBean(rec.info, rec.conf.defaultRole, now)]
            ELSE [rec EXCEPT !.pc = "storeUser",
                             !.user = [users[u] EXCEPT !.email = rec.info.email,
                                                       !.display_name = rec.info.name,
                                                       !.last_login = now]]]
    /\ UNCHANGED <<now, ticks, authSessions, nextState, settings, users, loginCodes,
                   nextCode, sockets, lg, task, probe, answer>>

\* crypto.randomBytes(4).toString("hex")
HexSuffixes == {"1a2b3c4d"}

\* let existingUser = await R.findOne("user", " username = ?", ...)
CallbackCheckUsername(r) ==
    /\ cb[r].pc = "checkUsername"
    /\ \E hex \in HexSuffixes :
        cb' = [cb EXCEPT ![r] =
            [@ EXCEPT !.pc = "storeUser",
                      !.user.username = IF UsernameTaken(@) THEN @ \o <<"_", hex>> ELSE @]]
    /\ UNCHANGED <<now, ticks, authSessions, nextState, settings, users, loginCodes,
                   nextCode, sockets, lg, task, probe, answer>>

\* await R.store(user): the insert of a new row (which the unique index on
\* entra_oid may refuse) or the update of the assigned columns
CallbackStoreUser(r) ==
    /\ cb[r].pc = "storeUser"
    /\ LET bean == cb[r].user IN
        IF bean.id = 0 THEN
            IF OidIndexFree(bean.entra_oid) THEN
                /\ users' = Append(users, [bean EXCEPT !.id = Len(users) + 1])
                /\ cb' = [cb EXCEPT ![r] = [@ EXCEPT !.pc = "storeCode", !.wroteUser = TRUE,
                                                     !.user.id = Len(users) + 1]]
            ELSE
                /\ cb' = [cb EXCEPT ![r] = Redirect(@, "oidc_error", MsgAuthFailed, 0)]
                /\ UNCHANGED users
        ELSE
            /\ users' = [users EXCEPT ![bean.id] =
                            [@ EXCEPT !.email = bean.email,
                                      !.display_name = bean.display_name,
                                      !.last_login = bean.last_login]]
            /\ cb' = [cb EXCEPT ![r] = [@ EXCEPT !.pc = "storeCode", !.wroteUser = TRUE]]
    /\ UNCHANGED <<now, ticks, authSessions, nextState, settings, loginCodes,
                   nextCode, sockets, lg, task, probe, answer>>

\* a login code row that names the first user whoever logged in
NewLoginCodeOfFirstUser(userId, t) ==
    [user_id |-> 1, expires_at |-> t + CodeTTL, used |-> FALSE]

\* a login code row that is born used
NewLoginCodeSpent(userId, t) ==
    [user_id |-> userId, expires_at |-> t + CodeTTL, used |-> TRUE]

\* the oidc_login_code row R.dispense builds
NewLoginCode(userId, t) ==
    [user_id |-> userId, expires_at |-> t + CodeTTL, used |-> FALSE]

\* await R.store(loginCodeBean); res.redirect(`/dashboard?oidc_code=...`)
CallbackStoreCode(r) ==
    /\ cb[r].pc = "storeCode"
    /\ nextCode' = nextCode + 1
    /\ loginCodes' =
        [c \in DOMAIN loginCodes \cup {nextCode'} |->
            IF c = nextCode' THEN NewLoginCode(cb[r].user.id, now) ELSE loginCodes[c]]
    /\ cb' = [cb EXCEPT ![r] = Redirect(@, "oidc_code", Null, nextCode')]
    /\ UNCHANGED <<now, ticks, authSessions, nextState, settings, users, sockets,
                   lg, task, probe, answer>>

\* -------------------------------------------- the OIDC router at work
\* the routes serving requests that come from `contexts`, with a provider
\* that answers with `tokens`
Requests(contexts, tokens) ==
    \/ \E l \in LoginIds, req \in contexts : LoginReceive(l, req)
    \/ \E l \in LoginIds : LoginDiscoverFails(l)
    \/ \E l \in LoginIds : LoginRegister(l)
    \/ \E r \in CallbackIds, s \in 0..BogusState, q \in QueryErrors : CallbackReceive(r, s, q)
    \/ \E r \in CallbackIds : CallbackSettings(r)
    \/ \E r \in CallbackIds : CallbackDiscover(r)
    \/ \E r \in CallbackIds : CallbackDiscoverFails(r)
    \/ \E r \in CallbackIds, claims \in tokens : CallbackExchange(r, claims)
    \/ \E r \in CallbackIds : CallbackExchangeFails(r)
    \/ \E r \in CallbackIds : CallbackFindUser(r)
    \/ \E r \in CallbackIds : CallbackCheckUsername(r)
    \/ \E r \in CallbackIds : CallbackStoreUser(r)
    \/ \E r \in CallbackIds : CallbackStoreCode(r)

\* the router: the clock, the sweep of the timer and the two routes
Router(contexts, tokens) ==
    \/ \E d \in {1, SessionTTL} : Tick(d)
    \/ Sweep
    \/ Requests(contexts, tokens)

\* requests arriving through the reverse proxy
ProxiedContexts == {req \in RequestContexts : req.fhost # Null}

Next == Router(ProxiedContexts, IdTokens)

Spec == Init /\ [][Next]_vars

\* ------------------------------------------- the group check by itself
MaxGroups == 2        \* length of the allowedGroups setting and of the groups claim
GroupIds == {"G1", "G2", "G3"}
GroupLists == UNION {[1..n -> GroupIds] : n \in 0..MaxGroups}

\* the claims of an ID token with the given groups claim
ClaimsWithGroups(groups, hasGroups) ==
    [NoClaims EXCEPT !.oid = "o1", !.groups = groups, !.hasGroups = hasGroups]

InitGroups ==
    /\ InitWith(UnboundSockets, <<>>)
    /\ \E allowed \in GroupLists :
        settings = [oidcEntraEnabled |-> TRUE, oidcEntraTenantId |-> "t1",
                    oidcEntraClientId |-> "c1", oidcEntraClientSecret |-> "s1",
                    oidcEntraAllowedGroups |-> allowed,
                    oidcEntraDefaultRole |-> "viewer", oidcEntraAutoCreateUsers |-> TRUE]

\* a token arrives: any groups claim, or none
ExchangeAnswers ==
    /\ probe.fn = "none"
    /\ \E groups \in GroupLists, hasGroups \in BOOLEAN :
        /\ hasGroups \/ groups = <<>>
        /\ probe' = [fn |-> "groupCheck", claims |-> ClaimsWithGroups(groups, hasGroups),
                     result |-> "none"]
    /\ UNCHANGED <<now, ticks, authSessions, nextState, settings, users, loginCodes,
                   nextCode, sockets, lg, cb, task, answer>>

\* lines 548-564 of the callback on those claims and the stored setting
GroupCheck ==
    /\ probe.fn = "groupCheck" /\ probe.result = "none"
    /\ probe' = [probe EXCEPT !.result =
                    IF GroupCheckPasses(getOidcSettings.allowedGroups,
                                        UserInfo(probe.claims).groups)
                    THEN "pass" ELSE "deny"]
    /\ UNCHANGED <<now, ticks, authSessions, nextState, settings, users, loginCodes,
                   nextCode, sockets, lg, cb, task, answer>>

NextGroups == ExchangeAnswers \/ GroupCheck

SpecGroups == InitGroups /\ [][NextGroups]_vars

\* --------------------------------------------------- socket responses
MsgInvalidCode == "Invalid login code"
MsgCodeUnknown == "Invalid or expired login code"
MsgCodeExpired == "Login code expired"
MsgUserUnavailable == "User not found or inactive"
MsgNotLoggedIn == "You are not logged in."
MsgAdminRequired == "Permission denied. Admin access required."
MsgIdAndRoleRequired == "User ID and role are required"
MsgInvalidRole == "Invalid role. Must be 'admin' or 'viewer'"
MsgLastAdminRole == "Cannot remove the last admin. At least one admin must remain."
MsgLastAdminDelete == "Cannot delete the last admin. At least one admin must remain."
MsgUserNotFound == "User not found"
MsgIdRequired == "User ID is required"
MsgSelfDelete == "You cannot delete your own account"

\* callback({ ok, msg, role }) of loginByOidcCode: the handler has answered,
\* its locals are gone; the slot keeps the code it was sent and the answer
Respond(rec, ok, msg, role) ==
    [rec EXCEPT !.pc = "done", !.codeBean = NoCodeBean,
                !.ok = ok, !.msg = msg, !.respRole = role]

\* a socket event starts a handler on a free slot
Starts(t, op, sock) ==
    [IdleTask EXCEPT !.op = op, !.pc = "start", !.sock = sock]

\* ------------------------------------------- socket.on("loginByOidcCode")
\* the codes a client may send: 0 is no code or not a string, the others
\* stand for hex strings, the last one for a string no callback issued
CodeInputs == 0..3

\* !code || typeof code !== "string"
LoginByCodeStart(t, sock, code) ==
    /\ task[t].pc = "idle"
    /\ task' = [task EXCEPT ![t] =
        LET rec == [Starts(t, "loginByOidcCode", sock) EXCEPT !.code = code] IN
        IF code = 0 THEN Respond(rec, FALSE, MsgInvalidCode, Null)
        ELSE [rec EXCEPT !.pc = "findCode"]]
    /\ UNCHANGED <<now, ticks, authSessions, nextState, settings, users, loginCodes,
                   nextCode, sockets, lg, cb, probe, answer>>

\* a row that matches whether used or not
CodeRowAny(code) == code \in DOMAIN loginCodes

\* R.findOne("oidc_login_code", " code = ? AND used = 0 ", [code]) finds a row
CodeRowUnused(code) == code \in DOMAIN loginCodes /\ ~loginCodes[code].used

\* expiresAt < new Date()
CodeExpired(row, t) == row.expires_at < t

\* the findOne resolves; the expiry is checked and used is set on the bean
LoginByCodeFind(t) ==
    /\ task[t].op = "loginByOidcCode" /\ task[t].pc = "findCode"
    /\ LET code == task[t].code IN
        task' = [task EXCEPT ![t] =
            IF ~CodeRowUnused(code) THEN Respond(@, FALSE, MsgCodeUnknown, Null)
            ELSE LET bean == [code |-> code, user_id |-> loginCodes[code].user_id,
                              expires_at |-> loginCodes[code].expires_at,
                              used |-> loginCodes[code].used] IN
                 IF CodeExpired(bean, now)
                 THEN [@ EXCEPT !.pc = "trash", !.codeBean = bean]
                 ELSE [@ EXCEPT !.pc = "storeCode", !.codeBean = [bean EXCEPT !.used = TRUE]]]
    /\ UNCHANGED <<now, ticks, authSessions, nextState, settings, users, loginCodes,
                   nextCode, sockets, lg, cb, probe, answer>>

\* the answer without the R.trash before it
LoginByCodeTrashSkipped(t) ==
    /\ task[t].op = "loginByOidcCode" /\ task[t].pc = "trash"
    /\ task' = [task EXCEPT ![t] = Respond(@, FALSE, MsgCodeExpired, Null)]
    /\ UNCHANGED <<now, ticks, authSessions, nextState, settings, users, loginCodes,
                   nextCode, sockets, lg, cb, probe, answer>>

\* await R.trash(loginCode); callback({ ok: false, msg: "Login code expired" })
LoginByCodeTrash(t) ==
    /\ task[t].op = "loginByOidcCode" /\ task[t].pc = "trash"
    /\ loginCodes' = [c \in DOMAIN loginCodes \ {task[t].codeBean.code} |-> loginCodes[c]]
    /\ task' = [task EXCEPT ![t] = Respond(@, FALSE, MsgCodeExpired, Null)]
    /\ UNCHANGED <<now, ticks, authSessions, nextState, settings, users, nextCode,
                   sockets, lg, cb, probe, answer>>

\* the store of the code left out: used is set on the bean alone
LoginByCodeStoreSkipped(t) ==
    /\ task[t].op = "loginByOidcCode" /\ task[t].pc = "storeCode"
    /\ task' = [task EXCEPT ![t] = [@ EXCEPT !.pc = "findUser", !.wrote = TRUE]]
    /\ UNCHANGED <<now, ticks, authSessions, nextState, settings, users, loginCodes,
                   nextCode, sockets, lg, cb, probe, answer>>

\* loginCode.used = true; await R.store(loginCode)
LoginByCodeStore(t) ==
    /\ task[t].op = "loginByOidcCode" /\ task[t].pc = "storeCode"
    /\ LET code == task[t].codeBean.code IN
        loginCodes' = IF code \in DOMAIN loginCodes
                      THEN [loginCodes EXCEPT ![code].used = task[t].codeBean.used]
                      ELSE loginCodes
    /\ task' = [task EXCEPT ![t] = [@ EXCEPT !.pc = "findUser", !.wrote = TRUE]]
    /\ UNCHANGED <<now, ticks, authSessions, nextState, settings, users, nextCode,
                   sockets, lg, cb, probe, answer>>

\* the socket bound to the owner of the code before the look at the row
LoginByCodeFindUserBindsFirst(t) ==
    /\ task[t].op = "loginByOidcCode" /\ task[t].pc = "findUser"
    /\ LET u == ActiveById(task[t].codeBean.user_id) IN
        /\ sockets' = [sockets EXCEPT ![task[t].sock] =
                        [userID |-> task[t].codeBean.user_id,
                         userRole |-> IF u = 0 THEN "viewer"
                                      ELSE OrElse(users[u].role, "viewer")]]
        /\ task' = [task EXCEPT ![t] =
                        IF u = 0 THEN Respond(@, FALSE, MsgUserUnavailable, Null)
                        ELSE Respond(@, TRUE, Null, users[u].role)]
    /\ UNCHANGED <<now, ticks, authSessions, nextState, settings, users, loginCodes,
                   nextCode, lg, cb, probe, answer>>

\* the findOne of the owning user resolves; the socket is bound and answered
LoginByCodeFindUser(t) ==
    /\ task[t].op = "loginByOidcCode" /\ task[t].pc = "findUser"
    /\ LET u == ActiveById(task[t].codeBean.user_id) IN
        IF u = 0 THEN
            /\ task' = [task EXCEPT ![t] = Respond(@, FALSE, MsgUserUnavailable, Null)]
            /\ UNCHANGED sockets
        ELSE
            /\ sockets' = [sockets EXCEPT ![task[t].sock] =
                            [userID |-> users[u].id,
                             userRole |-> OrElse(users[u].role, "viewer")]]
            /\ task' = [task EXCEPT ![t] = Respond(@, TRUE, Null, users[u].role)]
    /\ UNCHANGED <<now, ticks, authSessions, nextState, settings, users, loginCodes,
                   nextCode, lg, cb, probe, answer>>

\* no handler is between its first and its last step
AllQuiet == \A t \in TaskIds : task[t].pc \in {"idle", "done"}

InitExchange ==
    /\ InitWith(UnboundSockets, IssuedCodes)
    /\ settings \in {c \in EnabledSettings :
                        c.oidcEntraAllowedGroups = <<>> /\ c.oidcEntraAutoCreateUsers}

\* the steps of the exchange after its first
ExchangeSteps ==
    \/ \E d \in {1, CodeTTL} : Tick(d)
    \/ \E t \in TaskIds : LoginByCodeFind(t)
    \/ \E t \in TaskIds : LoginByCodeTrash(t)
    \/ \E t \in TaskIds : LoginByCodeStore(t)
    \/ \E t \in TaskIds : LoginByCodeFindUser(t)

\* clients exchanging codes, handlers overlapping at their awaits
NextExchange ==
    \/ \E t \in TaskIds, sock \in SocketIds, code \in CodeInputs : LoginByCodeStart(t, sock, code)
    \/ ExchangeSteps

SpecExchange == InitExchange /\ [][NextExchange]_vars

\* the same, each call answered before the next one is sent
NextExchangeSeq ==
    \/ \E t \in TaskIds, sock \in SocketIds, code \in CodeInputs :
        AllQuiet /\ LoginByCodeStart(t, sock, code)
    \/ ExchangeSteps

SpecExchangeSeq == InitExchange /\ [][NextExchangeSeq]_vars

\* ------------------------------------------------- permission checks
\* checkLogin(socket) of util-server: throws unless an identity is bound
checkLogin(sock) == IF sockets[sock].userID = 0 THEN MsgNotLoggedIn ELSE Null

\* socketIsAdmin(socket)
socketIsAdmin(sock) == sockets[sock].userRole = "admin"

\* checkAdmin(socket): the message of the error it throws, Null if none
checkAdmin(sock) ==
    IF sockets[sock].userID = 0 THEN MsgNotLoggedIn
    ELSE IF ~socketIsAdmin(sock) THEN MsgAdminRequired
    ELSE Null

\* checkLogin(socket) alone, without checkAdmin(socket)
LoginGate(sock) == checkLogin(sock)

\* checkLogin(socket); checkAdmin(socket);
AdminGate(sock) == OrElse(checkLogin(sock), checkAdmin(sock))

\* ------------------------------------------------- user ids on the wire
\* a user id as a client sends it: a number or a string of digits;
\* <<"number", 0>> also stands for undefined
UserIdInputs ==
    {<<"number", i>> : i \in 0..Len(InitUsers)} \cup {<<"string", i>> : i \in {1}}

\* the id as the SQL parameter " id = ? " compares it with the integer column
SqlId(userId) == userId[2]

\* !userId
UserIdMissing(userId) == userId = <<"number", 0>>

\* userId === socket.userID  (socket.userID is the number of the row)
StrictlyEqualsId(userId, id) == userId = <<"number", id>>

RoleInputs == {"admin", "viewer", "owner"}

\* callback({ ok, msg }) of a user management handler: the answer is sent
\* and the handler is gone
Answer(rec, ok, msg) ==
    [op |-> rec.op, ok |-> ok, msg |-> msg, wrote |-> rec.wrote, body |-> NoBody]

\* a user management event starts a handler on a free slot
StartsAdmin(op) == [IdleTask EXCEPT !.op = op, !.pc = "start"]

\* ------------------------------------------------ socket.on("setUserRole")
\* the checks of the payload, up to the first await
SetUserRoleStart(t, sock, userId, role) ==
    /\ task[t].pc = "idle"
    /\ LET rec == StartsAdmin("setUserRole")
           refusal == IF AdminGate(sock) # Null THEN AdminGate(sock)
                      ELSE IF UserIdMissing(userId) \/ Falsy(role) THEN MsgIdAndRoleRequired
                      ELSE IF role \notin {"admin", "viewer"} THEN MsgInvalidRole
                      ELSE Null IN
        IF refusal # Null THEN
            /\ answer' = Answer(rec, FALSE, refusal)
            /\ UNCHANGED task
        ELSE
            /\ task' = [task EXCEPT ![t] =
                        [rec EXCEPT !.userId = userId, !.role = role,
                                    !.pc = IF role # "admin" THEN "count" ELSE "find"]]
            /\ UNCHANGED answer
    /\ UNCHANGED <<now, ticks, authSessions, nextState, settings, users, loginCodes,
                   nextCode, sockets, lg, cb, probe>>

\* the count of all active admins, the target included
AdminCountAll(id) ==
    Cardinality({i \in DOMAIN users : users[i].role = "admin" /\ users[i].active})

\* the target counted with the others
NoAdminAtAll(id) == AdminCountAll(id) = 0

\* adminCount === 0, for the count of the other active admins
NoOtherAdmin(id) == AdminCountExcept(id) = 0

\* the count resolves
SetUserRoleCount(t) ==
    /\ task[t].op = "setUserRole" /\ task[t].pc = "count"
    /\ IF NoOtherAdmin(SqlId(task[t].userId)) THEN
            /\ answer' = Answer(task[t], FALSE, MsgLastAdminRole)
            /\ task' = [task EXCEPT ![t] = IdleTask]
       ELSE
            /\ task' = [task EXCEPT ![t].pc = "find"]
            /\ UNCHANGED answer
    /\ UNCHANGED <<now, ticks, authSessions, nextState, settings, users, loginCodes,
                   nextCode, sockets, lg, cb, probe>>

\* the findOne resolves; user.role = role
SetUserRoleFind(t) ==
    /\ task[t].op = "setUserRole" /\ task[t].pc = "find"
    /\ LET u == ActiveById(SqlId(task[t].userId)) IN
        IF u = 0 THEN
            /\ answer' = Answer(task[t], FALSE, MsgUserNotFound)
            /\ task' = [task EXCEPT ![t] = IdleTask]
        ELSE
            /\ task' = [task EXCEPT ![t] =
                        [@ EXCEPT !.pc = "store",
                                  !.userBean = [users[u] EXCEPT !.role = task[t].role]]]
            /\ UNCHANGED answer
    /\ UNCHANGED <<now, ticks, authSessions, nextState, settings, users, loginCodes,
                   nextCode, sockets, lg, cb, probe>>

\* await R.store(user); callback({ ok: true, ... })
SetUserRoleStore(t) ==
    /\ task[t].op = "setUserRole" /\ task[t].pc = "store"
    /\ users' = [users EXCEPT ![task[t].userBean.id].role = task[t].userBean.role]
    /\ answer' = Answer([task[t] EXCEPT !.wrote = TRUE], TRUE, "userRoleUpdated")
    /\ task' = [task EXCEPT ![t] = IdleTask]
    /\ UNCHANGED <<now, ticks, authSessions, nextState, settings, loginCodes,
                   nextCode, sockets, lg, cb, probe>>

\* ------------------------------------------------- socket.on("deleteUser")
\* the checks of the argument, up to the first await
DeleteUserStart(t, sock, userId) ==
    /\ task[t].pc = "idle"
    /\ LET rec == StartsAdmin("deleteUser")
           refusal == IF AdminGate(sock) # Null THEN AdminGate(sock)
                      ELSE IF UserIdMissing(userId) THEN MsgIdRequired
                      ELSE IF StrictlyEqualsId(userId, sockets[sock].userID) THEN MsgSelfDelete
                      ELSE Null IN
        IF refusal # Null THEN
            /\ answer' = Answer(rec, FALSE, refusal)
            /\ UNCHANGED task
        ELSE
            /\ task' = [task EXCEPT ![t] = [rec EXCEPT !.userId = userId, !.pc = "find"]]
            /\ UNCHANGED answer
    /\ UNCHANGED <<now, ticks, authSessions, nextState, settings, users, loginCodes,
                   nextCode, sockets, lg, cb, probe>>

\* the findOne resolves; an admin is counted first, anyone else is
\* marked inactive at once
DeleteUserFind(t) ==
    /\ task[t].op = "deleteUser" /\ task[t].pc = "find"
    /\ LET u == ActiveById(SqlId(task[t].userId)) IN
        IF u = 0 THEN
            /\ answer' = Answer(task[t], FALSE, MsgUserNotFound)
            /\ task' = [task EXCEPT ![t] = IdleTask]
        ELSE
            /\ task' = [task EXCEPT ![t] =
                IF users[u].role = "admin"
                THEN [@ EXCEPT !.pc = "count", !.userBean = users[u]]
                ELSE [@ EXCEPT !.pc = "store", !.userBean = [users[u] EXCEPT !.active = FALSE]]]
            /\ UNCHANGED answer
    /\ UNCHANGED <<now, ticks, authSessions, nextState, settings, users, loginCodes,
                   nextCode, sockets, lg, cb, probe>>

\* the count resolves; user.active = false
DeleteUserCount(t) ==
    /\ task[t].op = "deleteUser" /\ task[t].pc = "count"
    /\ IF NoOtherAdmin(SqlId(task[t].userId)) THEN
            /\ answer' = Answer(task[t], FALSE, MsgLastAdminDelete)
            /\ task' = [task EXCEPT ![t] = IdleTask]
       ELSE
            /\ task' = [task EXCEPT ![t] = [@ EXCEPT !.pc = "store", !.userBean.active = FALSE]]
            /\ UNCHANGED answer
    /\ UNCHANGED <<now, ticks, authSessions, nextState, settings, users, loginCodes,
                   nextCode, sockets, lg, cb, probe>>

\* await R.store(user)
DeleteUserStore(t) ==
    /\ task[t].op = "deleteUser" /\ task[t].pc = "store"
    /\ users' = [users EXCEPT ![task[t].userBean.id].active = task[t].userBean.active]
    /\ task' = [task EXCEPT ![t] = [@ EXCEPT !.pc = "purge", !.wrote = TRUE]]
    /\ UNCHANGED <<now, ticks, authSessions, nextState, settings, loginCodes,
                   nextCode, sockets, lg, cb, probe, answer>>

\* the DELETE without its WHERE clause: every login code goes
DeleteUserPurgeAll(t) ==
    /\ task[t].op = "deleteUser" /\ task[t].pc = "purge"
    /\ loginCodes' = <<>>
    /\ answer' = Answer(task[t], TRUE, "userDeleted")
    /\ task' = [task EXCEPT ![t] = IdleTask]
    /\ UNCHANGED <<now, ticks, authSessions, nextState, settings, users,
                   nextCode, sockets, lg, cb, probe>>

\* await R.exec("DELETE FROM oidc_login_code WHERE user_id = ?", [userId])
DeleteUserPurge(t) ==
    /\ task[t].op = "deleteUser" /\ task[t].pc = "purge"
    /\ loginCodes' =
        [c \in {k \in DOMAIN loginCodes : loginCodes[k].user_id # SqlId(task[t].userId)}
            |-> loginCodes[c]]
    /\ answer' = Answer(task[t], TRUE, "userDeleted")
    /\ task' = [task EXCEPT ![t] = IdleTask]
    /\ UNCHANGED <<now, ticks, authSessions, nextState, settings, users,
                   nextCode, sockets, lg, cb, probe>>

\* ----------------------------------------------- user management at work
InitUserAdmin ==
    /\ InitWith(BoundSockets, IssuedCodes)
    /\ settings \in {c \in EnabledSettings :
                        c.oidcEntraAllowedGroups = <<>> /\ c.oidcEntraAutoCreateUsers}

UserAdminSteps ==
    \/ \E t \in TaskIds : SetUserRoleCount(t)
    \/ \E t \in TaskIds : SetUserRoleFind(t)
    \/ \E t \in TaskIds : SetUserRoleStore(t)
    \/ \E t \in TaskIds : DeleteUserFind(t)
    \/ \E t \in TaskIds : DeleteUserCount(t)
    \/ \E t \in TaskIds : DeleteUserStore(t)
    \/ \E t \in TaskIds : DeleteUserPurge(t)

\* admins at work on their sockets, handlers overlapping at their awaits
NextUserAdmin ==
    \/ \E t \in TaskIds, sock \in SocketIds, userId \in UserIdInputs, role \in RoleInputs :
        SetUserRoleStart(t, sock, userId, role)
    \/ \E t \in TaskIds, sock \in SocketIds, userId \in UserIdInputs :
        DeleteUserStart(t, sock, userId)
    \/ UserAdminSteps

SpecUserAdmin == InitUserAdmin /\ [][NextUserAdmin]_vars

\* the same, each call answered before the next one is sent
NextUserAdminSeq ==
    \/ \E t \in TaskIds, sock \in SocketIds, userId \in UserIdInputs, role \in RoleInputs :
        AllQuiet /\ SetUserRoleStart(t, sock, userId, role)
    \/ \E t \in TaskIds, sock \in SocketIds, userId \in UserIdInputs :
        AllQuiet /\ DeleteUserStart(t, sock, userId)
    \/ UserAdminSteps

SpecUserAdminSeq == InitUserAdmin /\ [][NextUserAdminSeq]_vars

\* ==================================================================
\* Properties of the OIDC router (checked under Spec)
\* ==================================================================

\* the request r has been received, and was received carrying state s
Carried(r, s) == cb[r].pc # "idle" /\ cb[r].state = s

\* the step receives request r
Receives(r) == cb[r].pc = "idle" /\ cb'[r].pc # "idle"

\* request r has been answered with the error message m, without a token
\* exchange, a user written or a login code issued
RejectedWith(rec, m) ==
    /\ rec.pc = "done"
    /\ rec.result = [param |-> "oidc_error", value |-> m, code |-> 0]
    /\ ~rec.exchanged
    /\ ~rec.wroteUser

\* the expiry of the session a /login registered under s, NoTime if none did
IssuedExpiry(s) ==
    IF \E l \in LoginIds : lg[l].state = s /\ s # NoState
    THEN (CHOOSE e \in {lg[l].expiresAt : l \in {k \in LoginIds : lg[k].state = s}} : TRUE)
    ELSE NoTime

\* C1 as stated: for every state token s registered by beginLogin at most one
\* callback request obtains the pending session, and every other request that
\* carried s is redirected with "Invalid or expired authentication session"
\* and never reaches the token exchange.
C1_EveryOtherRequestInvalidSession ==
    \A s \in 1..nextState :
        /\ Cardinality({r \in CallbackIds : cb[r].got = s}) <= 1
        /\ \A r \in CallbackIds :
            (Carried(r, s) /\ cb[r].got # s) => RejectedWith(cb[r], MsgInvalidSession)

\* C1 as amended: at most one request obtains the session of s; every other
\* request carrying s and no provider error parameter is redirected with
\* "Invalid or expired authentication session"; one carrying a provider error
\* parameter is redirected with an oidc_error too; none of them reaches the
\* token exchange.
C1_AtMostOneRequestConsumesState ==
    \A s \in 1..nextState :
        /\ Cardinality({r \in CallbackIds : cb[r].got = s}) <= 1
        /\ \A r \in CallbackIds :
            (Carried(r, s) /\ cb[r].got # s) =>
                /\ cb[r].pc = "done"
                /\ cb[r].result.param = "oidc_error"
                /\ ~cb[r].exchanged
                /\ Falsy(cb[r].error) => RejectedWith(cb[r], MsgInvalidSession)

\* two requests carried the same registered state: one went on to the token
\* exchange, the other was turned away
C1_Witness ==
    \E s \in 1..nextState : \E r1, r2 \in CallbackIds :
        /\ r1 # r2
        /\ cb[r1].got = s /\ cb[r1].exchanged
        /\ Carried(r2, s) /\ RejectedWith(cb[r2], MsgInvalidSession)

\* C6: a callback received with a state whose pending session expired before
\* now is answered at once with an oidc_error, swept or not: no token
\* exchange, no user written, no login code issued.
C6_ExpiredSessionRejected ==
    [][\A r \in CallbackIds :
        (/\ Receives(r)
         /\ IssuedExpiry(cb'[r].state) # NoTime
         /\ IssuedExpiry(cb'[r].state) < now)
        => /\ cb'[r].pc = "done"
           /\ cb'[r].result.param = "oidc_error"
           /\ cb'[r].result.code = 0
           /\ ~cb'[r].exchanged /\ ~cb'[r].wroteUser
           /\ users' = users /\ loginCodes' = loginCodes /\ nextCode' = nextCode]_vars

\* one request found its expired session still in the map, another came for
\* an expired session the sweep had removed
C6_Witness ==
    \E r1, r2 \in CallbackIds :
        /\ cb[r1].got # NoState /\ RejectedWith(cb[r1], MsgSessionExpired)
        /\ cb[r2].got = NoState /\ RejectedWith(cb[r2], MsgInvalidSession)
        /\ IssuedExpiry(cb[r2].state) # NoTime /\ IssuedExpiry(cb[r2].state) < now
        /\ \A r \in CallbackIds : cb[r].got # cb[r2].state

\* C7 as stated: a callback whose state was never registered (or is absent)
\* is redirected with the "Invalid or expired ..." oidc_error and leaves the
\* user table, the login codes and the session registry unchanged.
C7_UnknownStateInvalidSession ==
    [][\A r \in CallbackIds :
        (Receives(r) /\ cb'[r].state \notin 1..nextState)
        => /\ RejectedWith(cb'[r], MsgInvalidSession)
           /\ users' = users /\ loginCodes' = loginCodes
           /\ authSessions' = authSessions]_vars

\* C7 as amended: such a callback leaves the three stores unchanged and is
\* redirected with an oidc_error, which is the "Invalid or expired ..."
\* message whenever the query carries no provider error parameter.
C7_UnknownStateRejected ==
    [][\A r \in CallbackIds :
        (Receives(r) /\ cb'[r].state \notin 1..nextState)
        => /\ cb'[r].pc = "done"
           /\ cb'[r].result.param = "oidc_error" /\ cb'[r].result.code = 0
           /\ ~cb'[r].exchanged /\ ~cb'[r].wroteUser
           /\ Falsy(cb'[r].error) => RejectedWith(cb'[r], MsgInvalidSession)
           /\ users' = users /\ loginCodes' = loginCodes
           /\ authSessions' = authSessions]_vars

\* a request with a state nobody issued, while a session is pending
C7_Witness ==
    \E r \in CallbackIds :
        /\ cb[r].state = BogusState /\ Falsy(cb[r].error)
        /\ RejectedWith(cb[r], MsgInvalidSession)
        /\ DOMAIN authSessions # {}

\* C9: the step in which a callback fails the group check changes no user row
\* and no login code, and the request has written no user and issues no code.
C9_GroupDenialWritesNothing ==
    [][\A r \in CallbackIds :
        (cb[r].pc # "done" /\ cb'[r].pc = "done" /\ cb'[r].result.value = MsgNotAuthorized)
        => /\ users' = users
           /\ loginCodes' = loginCodes /\ nextCode' = nextCode
           /\ ~cb'[r].wroteUser
           /\ cb'[r].result.code = 0]_vars

\* a callback was denied by the group check after its token exchange
C9_Witness ==
    \E r \in CallbackIds :
        /\ cb[r].pc = "done" /\ cb[r].exchanged
        /\ cb[r].result.value = MsgNotAuthorized
        /\ settings.oidcEntraAllowedGroups # <<>>

\* C10: a callback past token exchange and group check whose subject has no
\* active user, with autoCreateUsers stored as false, is redirected with the
\* "not provisioned" error; no user row is created, no login code issued.
C10_NoProvisioningWhenDisabled ==
    [][\A r \in CallbackIds :
        (/\ cb[r].pc = "findUser" /\ cb'[r].pc # "findUser"
         /\ ActiveByOid(cb[r].info.oid) = 0
         /\ settings.oidcEntraAutoCreateUsers = FALSE)
        => /\ cb'[r].pc = "done"
           /\ cb'[r].result = [param |-> "oidc_error", value |-> MsgNotProvisioned, code |-> 0]
           /\ ~cb'[r].wroteUser
           /\ users' = users /\ loginCodes' = loginCodes /\ nextCode' = nextCode]_vars

\* a callback for an unknown subject was turned away as not provisioned
C10_Witness ==
    \E r \in CallbackIds :
        /\ cb[r].pc = "done" /\ cb[r].exchanged /\ ~cb[r].wroteUser
        /\ cb[r].result.value = MsgNotProvisioned
        /\ Len(users) = Len(InitUsers)

\* ==================================================================
\* Properties of the group check (checked under SpecGroups)
\* ==================================================================

\* C8: the group check passes exactly when the allowedGroups setting is
\* empty or shares an element with the claimed groups; a token without a
\* groups claim claims no group.
C8_GroupCheckIsIntersection ==
    LET A == Range(settings.oidcEntraAllowedGroups)
        G == IF probe.claims.hasGroups THEN Range(probe.claims.groups) ELSE {}
    IN  probe.result # "none" =>
            (probe.result = "pass" <=> (A = {} \/ A \cap G # {}))

\* two allowed groups, two claimed groups, one of them in common: passed
C8_Witness ==
    LET A == Range(settings.oidcEntraAllowedGroups)
        G == Range(probe.claims.groups)
    IN  /\ probe.result = "pass"
        /\ Cardinality(A) = 2 /\ Cardinality(G) = 2 /\ Cardinality(A \cap G) = 1

\* ==================================================================
\* Properties of the login code exchange
\* ==================================================================

\* the handler in slot t has answered the exchange of code c
Exchanged(t, c) ==
    task[t].op = "loginByOidcCode" /\ task[t].pc = "done" /\ task[t].code = c

\* C2 (checked under SpecExchange, handlers overlapping): of the handlers
\* that exchange the same code no two answer ok:true.
C2_ConcurrentExchangeOneWinner ==
    \A t1, t2 \in TaskIds : \A c \in DOMAIN IssuedCodes :
        (t1 # t2 /\ Exchanged(t1, c) /\ Exchanged(t2, c)) => ~(task[t1].ok /\ task[t2].ok)

\* C3 (checked under SpecExchangeSeq, one call after the other): at most one
\* call with code c answers ok:true, and once one has, the stored code is
\* marked used (or is gone) and a later call gets no further than its lookup
\* of the code, where it is refused.
C3_SequentialExchangeAtMostOnce ==
    \A c \in 1..nextCode :
        /\ Cardinality({t \in TaskIds : Exchanged(t, c) /\ task[t].ok}) <= 1
        /\ (\E t \in TaskIds : Exchanged(t, c) /\ task[t].ok)
            => /\ c \notin DOMAIN loginCodes \/ loginCodes[c].used
               /\ \A t \in TaskIds :
                    (task[t].op = "loginByOidcCode" /\ task[t].code = c
                        /\ task[t].pc \notin {"idle", "done"}) => task[t].pc = "findCode"

\* a code was exchanged, and a second call with it was refused
C3_Witness ==
    \E c \in 1..nextCode : \E t1, t2 \in TaskIds :
        /\ Exchanged(t1, c) /\ task[t1].ok /\ sockets[task[t1].sock].userID # 0
        /\ Exchanged(t2, c) /\ ~task[t2].ok /\ task[t2].msg = MsgCodeUnknown

\* ==================================================================
\* Properties of user management
\* ==================================================================

ActiveAdmins == {i \in DOMAIN users : users[i].role = "admin" /\ users[i].active}

\* C4 (checked under SpecUserAdminSeq, one call after the other): there is
\* always an active admin, and a call refused for the sake of the last admin
\* has stored nothing.
C4_LastAdminKeptSequentially ==
    /\ Cardinality(ActiveAdmins) >= 1
    /\ ~answer.ok => ~answer.wrote

\* one admin is left and the call that would have removed them was refused
C4_Witness ==
    /\ Cardinality(ActiveAdmins) = 1
    /\ answer.msg \in {MsgLastAdminRole, MsgLastAdminDelete}
    /\ ~answer.ok /\ ~answer.wrote

\* C5 (checked under SpecUserAdmin, handlers overlapping): an active admin
\* exists in every state.
C5_AdminRemainsUnderConcurrency == ActiveAdmins # {}

\* ==================================================================
\* Properties of the callback for a known subject
\* ==================================================================

\* C11: a callback that finds an active user for the claimed subject id
\* takes that row with the claimed email and display name and the current
\* time as last_login; its store changes those three columns of that row and
\* nothing else in the user table (no row added, id, username, role and
\* subject id as they were); the login code it then stores names that row.
C11_KnownSubjectUpdatedInPlace ==
    [][\A r \in CallbackIds :
        /\ (cb[r].pc = "findUser" /\ cb'[r].pc = "storeUser") =>
            \E u \in DOMAIN users :
                /\ users[u].active /\ users[u].entra_oid = cb[r].info.oid
                /\ cb'[r].user = [users[u] EXCEPT !.email = cb[r].info.email,
                                                  !.display_name = cb[r].info.name,
                                                  !.last_login = now]
                /\ users' = users
        /\ (cb[r].pc = "storeUser" /\ cb[r].user.id # 0 /\ cb'[r].pc # "storeUser") =>
            /\ cb'[r].pc = "storeCode" /\ cb'[r].user.id = cb[r].user.id
            /\ DOMAIN users' = DOMAIN users
            /\ \A i \in DOMAIN users :
                users'[i] = IF i # cb[r].user.id THEN users[i]
                            ELSE [users[i] EXCEPT !.email = cb[r].user.email,
                                                  !.display_name = cb[r].user.display_name,
                                                  !.last_login = cb[r].user.last_login]
        /\ (cb[r].pc = "storeCode" /\ cb'[r].pc = "done") =>
            /\ cb'[r].result.param = "oidc_code"
            /\ cb'[r].result.code \in DOMAIN loginCodes' \ DOMAIN loginCodes
            /\ loginCodes'[cb'[r].result.code].user_id = cb[r].user.id
            /\ users' = users
      ]_vars

\* alice, whose address changed upstream, has logged in again: her row holds
\* the new address and a last login, no row was added, the code is hers
C11_Witness ==
    \E r \in CallbackIds :
        /\ cb[r].pc = "done" /\ cb[r].result.param = "oidc_code"
        /\ loginCodes[cb[r].result.code].user_id = 2
        /\ users[2].email = <<"alice", "new.example">>
        /\ users[2].username = <<"alice">> /\ users[2].role = "viewer"
        /\ users[2].last_login > 0
        /\ Len(users) = Len(InitUsers)

\* ==================================================================
\* The callback with a storage that may fail
\* ==================================================================

\* the awaits of the callback on the settings store and on the database
StorageAwaits == {"settings", "findUser", "checkUsername", "storeUser", "storeCode"}

\* an awaited Settings.get, R.findOne or R.store rejects: the catch block
CallbackStorageFails(r) ==
    /\ cb[r].pc \in StorageAwaits
    /\ cb' = [cb EXCEPT ![r] = Redirect(@, "oidc_error", MsgAuthFailed, 0)]
    /\ UNCHANGED <<now, ticks, authSessions, nextState, settings, users, loginCodes,
                   nextCode, sockets, lg, task, probe, answer>>

\* the provider answering for a known and for an unknown subject
FewTokens == {c \in IdTokens : c.groups = <<"G1">> \/ ~c.hasGroups}

\* the clock advances by the lifetime of a session
NextFaulty ==
    \/ Tick(SessionTTL)
    \/ Sweep
    \/ Requests(ProxiedContexts, FewTokens)
    \/ \E r \in CallbackIds : CallbackStorageFails(r)

\* whatever callback r awaits settles: it resolves or it rejects
CallbackSettles(r) ==
    \/ CallbackSettings(r)
    \/ CallbackDiscover(r)
    \/ CallbackDiscoverFails(r)
    \/ \E claims \in FewTokens : CallbackExchange(r, claims)
    \/ CallbackExchangeFails(r)
    \/ CallbackFindUser(r)
    \/ CallbackCheckUsername(r)
    \/ CallbackStoreUser(r)
    \/ CallbackStoreCode(r)
    \/ CallbackStorageFails(r)

SpecFaulty ==
    Init /\ [][NextFaulty]_vars /\ \A r \in CallbackIds : WF_vars(CallbackSettles(r))

\* the answer is a redirect with oidc_code alone or with oidc_error alone
OneParameter(result) ==
    \/ result.param = "oidc_code" /\ result.code # 0 /\ result.value = Null
    \/ result.param = "oidc_error" /\ result.code = 0 /\ ~Falsy(result.value)

\* C12: every callback request that was received is answered in the end;
\* the answer is one redirect, with oidc_code or with oidc_error and not
\* with both or none, it is never followed by another, and oidc_code names
\* a login code the request stored in the step that answered.
C12_CallbackAlwaysAnswersOnce ==
    /\ \A r \in CallbackIds : (cb[r].pc # "idle") ~> (cb[r].pc = "done")
    /\ [](\A r \in CallbackIds :
            /\ cb[r].pc = "done" <=> cb[r].result # NoResult
            /\ cb[r].pc = "done" => OneParameter(cb[r].result))
    /\ [][\A r \in CallbackIds :
            /\ cb[r].pc = "done" => cb'[r] = cb[r]
            /\ (cb[r].pc # "done" /\ cb'[r].pc = "done"
                    /\ cb'[r].result.param = "oidc_code")
                => /\ cb[r].pc = "storeCode"
                   /\ cb'[r].result.code \in DOMAIN loginCodes' \ DOMAIN loginCodes
       ]_vars

\* one request was answered with a code, another after its store of the
\* login code had failed
C12_Witness ==
    \E r1, r2 \in CallbackIds :
        /\ cb[r1].pc = "done" /\ cb[r1].result.param = "oidc_code"
        /\ cb[r2].pc = "done" /\ cb[r2].result.value = MsgAuthFailed
        /\ cb[r2].wroteUser /\ cb[r2].exchanged

\* ==================================================================
\* socket.on("getOidcSettings"), ("saveOidcSettings"), ("getUsers")
\* ==================================================================
MsgTenantClientRequired == "Tenant ID and Client ID are required when enabling Entra ID SSO"
MsgSecretRequired == "Client Secret is required when enabling Entra ID SSO"
SecretMask == "********"

\* settings as saveOidcSettings leaves them with SSO switched off and no
\* field filled in
DisabledSettings ==
    [oidcEntraEnabled |-> FALSE, oidcEntraTenantId |-> "", oidcEntraClientId |-> "",
     oidcEntraClientSecret |-> "", oidcEntraAllowedGroups |-> <<>>,
     oidcEntraDefaultRole |-> "viewer", oidcEntraAutoCreateUsers |-> TRUE]

\* data.oidcEntraAllowedGroups as clients send it: an array, a string (held
\* as its pieces between the commas), or nothing
GroupsInputs ==
    { <<"array", <<>>>>, <<"array", <<"G2", "G1">>>>,
      <<"string", <<" G1 ", "", "G2">>>>, <<"undefined", <<>>>> }

\* String.prototype.trim on a piece
Trim(piece) == IF piece = " G1 " THEN "G1" ELSE piece

\* allowedGroups.split(",").map(g => g.trim()).filter(g => g) for a string,
\* the value itself for an array, [] for a missing one
ParsedGroups(groups) ==
    IF groups[1] = "string"
    THEN SelectSeq([i \in DOMAIN groups[2] |-> Trim(groups[2][i])], LAMBDA g : g # "")
    ELSE groups[2]

\* the payloads of saveOidcSettings; "" also stands for a missing field.
\* Either the fields the validation looks at vary, or the other three do.
SaveInputs ==
    [oidcEntraEnabled : BOOLEAN, oidcEntraTenantId : {"", "t1"},
     oidcEntraClientId : {"", "c1"}, oidcEntraClientSecret : {"", SecretMask, "s1", "s2"},
     oidcEntraAllowedGroups : {<<"array", <<"G2", "G1">>>>}, oidcEntraDefaultRole : {"admin"},
     oidcEntraAutoCreateUsers : {FALSE}]
    \cup
    [oidcEntraEnabled : {FALSE}, oidcEntraTenantId : {"t1"},
     oidcEntraClientId : {"c1"}, oidcEntraClientSecret : {SecretMask},
     oidcEntraAllowedGroups : GroupsInputs, oidcEntraDefaultRole : {"", "admin", "viewer"},
     oidcEntraAutoCreateUsers : BOOLEAN]

\* the settings object with the automatic creation of users reported as on
\* whatever is stored
SettingsViewAutoOn ==
    [oidcEntraEnabled |-> settings.oidcEntraEnabled = TRUE,
     oidcEntraTenantId |-> OrElse(settings.oidcEntraTenantId, ""),
     oidcEntraClientId |-> OrElse(settings.oidcEntraClientId, ""),
     oidcEntraClientSecret |-> IF Falsy(settings.oidcEntraClientSecret) THEN "" ELSE SecretMask,
     oidcEntraAllowedGroups |-> settings.oidcEntraAllowedGroups,
     oidcEntraDefaultRole |-> OrElse(settings.oidcEntraDefaultRole, "viewer"),
     oidcEntraAutoCreateUsers |-> TRUE]

\* the settings object getOidcSettings answers with (lines 110-118)
SettingsView ==
    [oidcEntraEnabled |-> settings.oidcEntraEnabled = TRUE,
     oidcEntraTenantId |-> OrElse(settings.oidcEntraTenantId, ""),
     oidcEntraClientId |-> OrElse(settings.oidcEntraClientId, ""),
     oidcEntraClientSecret |-> IF Falsy(settings.oidcEntraClientSecret) THEN "" ELSE SecretMask,
     oidcEntraAllowedGroups |-> settings.oidcEntraAllowedGroups,
     oidcEntraDefaultRole |-> OrElse(settings.oidcEntraDefaultRole, "viewer"),
     oidcEntraAutoCreateUsers |-> settings.oidcEntraAutoCreateUsers # FALSE]

\* callback({ ok: true, settings }) / callback({ ok: true, users })
AnswerWith(rec, content) ==
    [op |-> rec.op, ok |-> TRUE, msg |-> Null, wrote |-> rec.wrote, body |-> content]

\* getOidcSettings: the two checks, then the first Settings.get is awaited
GetOidcSettingsStart(t, sock) ==
    /\ task[t].pc = "idle"
    /\ LET rec == StartsAdmin("getOidcSettings") IN
        IF AdminGate(sock) # Null THEN
            /\ answer' = Answer(rec, FALSE, AdminGate(sock))
            /\ UNCHANGED task
        ELSE
            /\ task' = [task EXCEPT ![t] = [rec EXCEPT !.pc = "read"]]
            /\ UNCHANGED answer
    /\ UNCHANGED <<now, ticks, authSessions, nextState, settings, users, loginCodes,
                   nextCode, sockets, lg, cb, probe>>

\* the seven Settings.get calls resolve and the object is sent
GetOidcSettingsRead(t) ==
    /\ task[t].op = "getOidcSettings" /\ task[t].pc = "read"
    /\ answer' = AnswerWith(task[t], SettingsView)
    /\ task' = [task EXCEPT ![t] = IdleTask]
    /\ UNCHANGED <<now, ticks, authSessions, nextState, settings, users, loginCodes,
                   nextCode, sockets, lg, cb, probe>>

\* callback({ ok, msg }) of saveOidcSettings; the record of the answer keeps
\* the payload that was answered
AnswerTo(rec, ok, msg) == [Answer(rec, ok, msg) EXCEPT !.body = rec.data]

\* saveOidcSettings: the two checks and the validation of tenant and client
\* id, up to the first await
SaveOidcSettingsStart(t, sock, data) ==
    /\ task[t].pc = "idle"
    /\ LET rec == [StartsAdmin("saveOidcSettings") EXCEPT !.data = data]
           refusal == IF AdminGate(sock) # Null THEN AdminGate(sock)
                      ELSE IF data.oidcEntraEnabled
                              /\ (Falsy(data.oidcEntraTenantId) \/ Falsy(data.oidcEntraClientId))
                          THEN MsgTenantClientRequired
                      ELSE Null IN
        IF refusal # Null THEN
            /\ answer' = AnswerTo(rec, FALSE, refusal)
            /\ UNCHANGED task
        ELSE
            /\ task' = [task EXCEPT ![t] =
                        [rec EXCEPT !.pc = IF data.oidcEntraEnabled THEN "secret"
                                           ELSE "setEnabled"]]
            /\ UNCHANGED answer
    /\ UNCHANGED <<now, ticks, authSessions, nextState, settings, users, loginCodes,
                   nextCode, sockets, lg, cb, probe>>

\* the check of the secret left out
SaveOidcSettingsSecretUnchecked(t) ==
    /\ task[t].op = "saveOidcSettings" /\ task[t].pc = "secret"
    /\ task' = [task EXCEPT ![t].pc = "setEnabled"]
    /\ UNCHANGED <<now, ticks, authSessions, nextState, settings, users, loginCodes,
                   nextCode, sockets, lg, cb, probe, answer>>

\* const existingSecret = await Settings.get("oidcEntraClientSecret")
SaveOidcSettingsSecret(t) ==
    /\ task[t].op = "saveOidcSettings" /\ task[t].pc = "secret"
    /\ IF Falsy(settings.oidcEntraClientSecret) /\ Falsy(task[t].data.oidcEntraClientSecret)
       THEN /\ answer' = AnswerTo(task[t], FALSE, MsgSecretRequired)
            /\ task' = [task EXCEPT ![t] = IdleTask]
       ELSE /\ task' = [task EXCEPT ![t].pc = "setEnabled"]
            /\ UNCHANGED answer
    /\ UNCHANGED <<now, ticks, authSessions, nextState, settings, users, loginCodes,
                   nextCode, sockets, lg, cb, probe>>

\* only data.oidcEntraClientSecret, the placeholder taken for a secret
SecretNotEmpty(data) == ~Falsy(data.oidcEntraClientSecret)

\* data.oidcEntraClientSecret && data.oidcEntraClientSecret !== "********"
SecretGiven(data) ==
    ~Falsy(data.oidcEntraClientSecret) /\ data.oidcEntraClientSecret # SecretMask

\* the awaited Settings.set calls of lines 154-171, one after the other;
\* the one of the secret is made only for a secret that was given
SaveOidcSettingsSet(t) ==
    /\ task[t].op = "saveOidcSettings"
    /\ task[t].pc \in {"setEnabled", "setTenant", "setClient", "setSecret", "setGroups",
                       "setRole", "setAuto"}
    /\ LET data == task[t].data
           pc == task[t].pc IN
        /\ settings' =
            CASE pc = "setEnabled" -> [settings EXCEPT !.oidcEntraEnabled = data.oidcEntraEnabled = TRUE]
              [] pc = "setTenant" -> [settings EXCEPT !.oidcEntraTenantId = OrElse(data.oidcEntraTenantId, "")]
              [] pc = "setClient" -> [settings EXCEPT !.oidcEntraClientId = OrElse(data.oidcEntraClientId, "")]
              [] pc = "setSecret" -> [settings EXCEPT !.oidcEntraClientSecret = data.oidcEntraClientSecret]
              [] pc = "setGroups" -> [settings EXCEPT !.oidcEntraAllowedGroups = ParsedGroups(data.oidcEntraAllowedGroups)]
              [] pc = "setRole" -> [settings EXCEPT !.oidcEntraDefaultRole = OrElse(data.oidcEntraDefaultRole, "viewer")]
              [] OTHER -> [settings EXCEPT !.oidcEntraAutoCreateUsers = data.oidcEntraAutoCreateUsers # FALSE]
        /\ IF pc = "setAuto" THEN
                /\ answer' = AnswerTo([task[t] EXCEPT !.wrote = TRUE], TRUE, "oidcSettingsSaved")
                /\ task' = [task EXCEPT ![t] = IdleTask]
           ELSE
                /\ task' = [task EXCEPT ![t] = [@ EXCEPT !.wrote = TRUE, !.pc =
                            CASE pc = "setEnabled" -> "setTenant"
                              [] pc = "setTenant" -> "setClient"
                              [] pc = "setClient" -> IF SecretGiven(data) THEN "setSecret"
                                                     ELSE "setGroups"
                              [] pc = "setSecret" -> "setGroups"
                              [] pc = "setGroups" -> "setRole"
                              [] OTHER -> "setAuto"]]
                /\ UNCHANGED answer
    /\ UNCHANGED <<now, ticks, authSessions, nextState, users, loginCodes,
                   nextCode, sockets, lg, cb, probe>>

\* users.map(user => ({ ... })) over R.findAll("user", " active = 1 ORDER BY id ASC")
UserList ==
    LET active == SelectSeq(users, LAMBDA u : u.active) IN
    [i \in DOMAIN active |->
        [id |-> active[i].id, username |-> active[i].username, email |-> active[i].email,
         displayName |-> active[i].display_name, role |-> OrElse(active[i].role, "admin"),
         lastLogin |-> active[i].last_login, hasEntraId |-> ~Falsy(active[i].entra_oid),
         hasPassword |-> ~Falsy(active[i].password)]]

\* getUsers: the two checks, then R.findAll is awaited
GetUsersStart(t, sock) ==
    /\ task[t].pc = "idle"
    /\ LET rec == StartsAdmin("getUsers") IN
        IF AdminGate(sock) # Null THEN
            /\ answer' = Answer(rec, FALSE, AdminGate(sock))
            /\ UNCHANGED task
        ELSE
            /\ task' = [task EXCEPT ![t] = [rec EXCEPT !.pc = "findAll"]]
            /\ UNCHANGED answer
    /\ UNCHANGED <<now, ticks, authSessions, nextState, settings, users, loginCodes,
                   nextCode, sockets, lg, cb, probe>>

\* the rows arrive and the list is sent
GetUsersFindAll(t) ==
    /\ task[t].op = "getUsers" /\ task[t].pc = "findAll"
    /\ answer' = AnswerWith(task[t], UserList)
    /\ task' = [task EXCEPT ![t] = IdleTask]
    /\ UNCHANGED <<now, ticks, authSessions, nextState, settings, users, loginCodes,
                   nextCode, sockets, lg, cb, probe>>

\* ==================================================================
\* The admin-only events on sessions that are not admin sessions
\* ==================================================================

\* a session nobody logged in on, the session of a viewer, and a session
\* bound to a user without a role on it
Strangers ==
    { [userID |-> 0, userRole |-> Null], [userID |-> 2, userRole |-> "viewer"],
      [userID |-> 3, userRole |-> Null] }

InitAdminGate ==
    /\ \E socks \in [SocketIds -> Strangers] : InitWith(socks, IssuedCodes)
    /\ settings \in EnabledSettings \cup {DisabledSettings}

\* any of the five events, sent on any of the sockets
NextAdminGate ==
    \/ \E t \in TaskIds, sock \in SocketIds : GetOidcSettingsStart(t, sock)
    \/ \E t \in TaskIds, sock \in SocketIds, data \in SaveInputs :
        SaveOidcSettingsStart(t, sock, data)
    \/ \E t \in TaskIds, sock \in SocketIds : GetUsersStart(t, sock)
    \/ \E t \in TaskIds, sock \in SocketIds, userId \in UserIdInputs, role \in RoleInputs :
        SetUserRoleStart(t, sock, userId, role)
    \/ \E t \in TaskIds, sock \in SocketIds, userId \in UserIdInputs :
        DeleteUserStart(t, sock, userId)

SpecAdminGate == InitAdminGate /\ [][NextAdminGate]_vars

\* C13: with no admin session among the sockets, each of the five events is
\* answered ok:false at once, with the error of checkLogin or checkAdmin; no
\* handler gets past its checks and settings, users and login codes stay as
\* they are.
C13_AdminOnlyEventsRefused ==
    /\ [](\A t \in TaskIds : task[t].pc = "idle")
    /\ [](answer.op # "none" =>
            ~answer.ok /\ ~answer.wrote /\ answer.msg \in {MsgNotLoggedIn, MsgAdminRequired})
    /\ [][/\ answer'.op \in {"getOidcSettings", "saveOidcSettings", "getUsers",
                             "setUserRole", "deleteUser"}
          /\ settings' = settings /\ users' = users /\ loginCodes' = loginCodes]_vars

\* a viewer's saveOidcSettings was refused
C13_Witness ==
    /\ answer.op = "saveOidcSettings" /\ ~answer.ok /\ answer.msg = MsgAdminRequired
    /\ \E s \in SocketIds : sockets[s].userRole = "viewer"

\* ==================================================================
\* server/permissions.js
\* ==================================================================
MsgPermissionDenied == "Permission denied. You don't have access to this feature."

\* PERMISSIONS: the own properties of the object literal
PERMISSIONS ==
    [admin |-> <<"*">>,
     viewer |-> <<"monitor:read", "heartbeat:read", "notification:read",
                  "status-page:read", "maintenance:read", "proxy:read",
                  "docker-host:read", "remote-browser:read", "api-key:read",
                  "tag:read", "cert-info:read">>]

ALL_PERMISSIONS ==
    <<"monitor:read", "monitor:write", "monitor:delete", "heartbeat:read",
      "notification:read", "notification:write", "notification:delete",
      "status-page:read", "status-page:write", "status-page:delete",
      "maintenance:read", "maintenance:write", "maintenance:delete",
      "proxy:read", "proxy:write", "proxy:delete",
      "docker-host:read", "docker-host:write", "docker-host:delete",
      "remote-browser:read", "remote-browser:write", "remote-browser:delete",
      "api-key:read", "api-key:write", "api-key:delete",
      "tag:read", "tag:write", "tag:delete", "cert-info:read",
      "settings:read", "settings:write", "user:read", "user:write", "user:delete">>

\* keys every object literal inherits from Object.prototype: PERMISSIONS[key]
\* is then a function, which is truthy and has no includes method
InheritedKeys == {"constructor"}

\* the lookup without the test for the wildcard
LookupListed(role, permission) ==
    IF role \in DOMAIN PERMISSIONS THEN
        IF Includes(PERMISSIONS[role], permission) THEN "true" ELSE "false"
    ELSE IF role \in InheritedKeys THEN "TypeError"
    ELSE "false"

\* the outcome of  perms = PERMISSIONS[role]; if (!perms) ...; perms.includes(...)
\* for the role as it is looked up: "true", "false", or the TypeError thrown
\* by the call of the missing method
Lookup(role, permission) ==
    IF role \in DOMAIN PERMISSIONS THEN
        IF Includes(PERMISSIONS[role], "*") \/ Includes(PERMISSIONS[role], permission)
        THEN "true" ELSE "false"
    ELSE IF role \in InheritedKeys THEN "TypeError"
    ELSE "false"

\* hasPermission(user, permission); user.present is FALSE for null/undefined
hasPermission(user, permission) ==
    IF ~user.present THEN "false"
    ELSE Lookup(OrElse(user.role, "viewer"), permission)

\* socketHasPermission(socket, permission)
socketHasPermission(sock, permission) ==
    IF sockets[sock].userID = 0 THEN "false"
    ELSE Lookup(OrElse(sockets[sock].userRole, "viewer"), permission)

\* checkPermission with the permission looked at before the user id
checkPermissionBeforeLogin(sock, permission) ==
    IF socketHasPermission(sock, permission) = "false" THEN MsgPermissionDenied
    ELSE IF sockets[sock].userID = 0 THEN MsgNotLoggedIn
    ELSE Null

\* checkPermission(socket, permission): the message of the error it throws,
\* "TypeError" for the one thrown inside socketHasPermission, Null if none
checkPermission(sock, permission) ==
    IF sockets[sock].userID = 0 THEN MsgNotLoggedIn
    ELSE IF socketHasPermission(sock, permission) = "TypeError" THEN "TypeError"
    ELSE IF socketHasPermission(sock, permission) = "false" THEN MsgPermissionDenied
    ELSE Null

\* isAdmin(role)
isAdmin(role) == role = "admin"

\* getPermissionsForRole(role): the array returned, <<"TypeError">> for the
\* exception
getPermissionsForRole(role) ==
    IF role \in DOMAIN PERMISSIONS THEN
        IF Includes(PERMISSIONS[role], "*") THEN ALL_PERMISSIONS ELSE PERMISSIONS[role]
    ELSE IF role \in InheritedKeys THEN <<"TypeError">>
    ELSE <<>>

\* ------------------------------------------------- calls of the functions
\* role values: missing (undefined or null), empty, the two roles, a role
\* the table does not know, and one that names an inherited property
RoleValues == {Null, "", "admin", "viewer", "owner", "constructor"}

\* permission strings: the listed ones, the wildcard, and an unlisted one
PermissionValues == Range(ALL_PERMISSIONS) \cup {"*", "report:read"}

UserValues ==
    {[present |-> FALSE, role |-> Null]} \cup {[present |-> TRUE, role |-> r] : r \in RoleValues}

\* the first socket carries any user id and role field, the others nothing
InitPermissions ==
    /\ \E id \in {0, 1}, r \in RoleValues :
        InitWith([UnboundSockets EXCEPT !["s1"] = [userID |-> id, userRole |-> r]], <<>>)
    /\ settings = DisabledSettings

Called(fn, user, sock, role, permission, result) ==
    /\ probe' = [fn |-> fn, claims |-> NoClaims, result |-> result, user |-> user,
                 sock |-> sock, role |-> role, permission |-> permission]
    /\ UNCHANGED <<now, ticks, authSessions, nextState, settings, users, loginCodes,
                   nextCode, sockets, lg, cb, task, answer>>

NoUserValue == [present |-> FALSE, role |-> Null]

NextPermissions ==
    \/ \E user \in UserValues, p \in PermissionValues :
        Called("hasPermission", user, "s1", Null, p, hasPermission(user, p))
    \/ \E sock \in SocketIds, p \in PermissionValues :
        Called("socketHasPermission", NoUserValue, sock, Null, p, socketHasPermission(sock, p))
    \/ \E sock \in SocketIds, p \in PermissionValues :
        Called("checkPermission", NoUserValue, sock, Null, p, checkPermission(sock, p))
    \/ \E sock \in SocketIds :
        Called("checkAdmin", NoUserValue, sock, Null, Null, checkAdmin(sock))
    \/ \E role \in RoleValues :
        Called("getPermissionsForRole", NoUserValue, "s1", role, Null,
               getPermissionsForRole(role))

SpecPermissions == InitPermissions /\ [][NextPermissions]_vars

\* ==================================================================
\* Properties of the permission functions
\* ==================================================================

\* the eleven permissions a viewer is to hold
ViewerReads ==
    {"monitor:read", "heartbeat:read", "notification:read", "status-page:read",
     "maintenance:read", "proxy:read", "docker-host:read", "remote-browser:read",
     "api-key:read", "tag:read", "cert-info:read"}

\* the last call was one of hasPermission or socketHasPermission
AskedPermission == probe.fn \in {"hasPermission", "socketHasPermission"}

\* the role on the user or on the socket of the last call, Null if the call
\* had no user
AskedRole ==
    IF probe.fn = "hasPermission"
    THEN (IF probe.user.present THEN probe.user.role ELSE Null)
    ELSE sockets[probe.sock].userRole

\* the last call was about a user or about a socket with a user id on it
AskedOfSomeone ==
    IF probe.fn = "hasPermission" THEN probe.user.present
    ELSE sockets[probe.sock].userID # 0

\* what role 'admin' and role 'viewer' are to get for the permission asked
RoleTableAnswer ==
    /\ AskedRole = "admin" => probe.result = "true"
    /\ AskedRole = "viewer" => (probe.result = "true" <=> probe.permission \in ViewerReads)

\* C14 as stated: whenever the role is 'admin' the two functions answer
\* true, whatever the permission string, and whenever it is 'viewer' they
\* answer true exactly for the eleven read permissions.
C14_RoleTable == AskedPermission => RoleTableAnswer

\* C14 amended: the same, for a user and for a socket that has a user id.
C14_RoleTableOfBoundSession == (AskedPermission /\ AskedOfSomeone) => RoleTableAnswer

\* an admin's socket was granted a permission that is in no list
C14_Witness ==
    /\ probe.fn = "socketHasPermission" /\ AskedOfSomeone /\ AskedRole = "admin"
    /\ probe.permission = "report:read" /\ probe.result = "true"

\* C15: for a user or a socket with a user id whose role is missing or is
\* neither 'admin' nor 'viewer', hasPermission and socketHasPermission answer
\* false, and getPermissionsForRole answers the empty list for such a role.
C15_UnknownRoleGetsNothing ==
    /\ (AskedPermission /\ AskedOfSomeone /\ AskedRole \notin {"admin", "viewer"})
        => probe.result = "false"
    /\ (probe.fn = "getPermissionsForRole" /\ probe.role \notin {"admin", "viewer"})
        => probe.result = <<>>

\* the socket of the last checkPermission or checkAdmin call
CheckedSocket == sockets[probe.sock]

\* whether the role on that socket holds what the call asks for: the
\* permission as socketHasPermission answers it, or the admin role
CheckedRoleHolds ==
    IF probe.fn = "checkAdmin" THEN CheckedSocket.userRole = "admin"
    ELSE socketHasPermission(probe.sock, probe.permission) = "true"

\* C16: checkPermission and checkAdmin throw the not-logged-in error for a
\* socket without user id whatever its role; they throw the permission error
\* only for a socket with a user id whose role does not hold what is asked;
\* they return normally exactly for a socket with a user id whose role does;
\* and no call changes a socket.
C16_ChecksFailInOrder ==
    /\ [](probe.fn \in {"checkPermission", "checkAdmin"} =>
            /\ CheckedSocket.userID = 0 <=> probe.result = MsgNotLoggedIn
            /\ probe.result \in {MsgPermissionDenied, MsgAdminRequired}
                => (CheckedSocket.userID # 0 /\ ~CheckedRoleHolds)
            /\ probe.result = MsgPermissionDenied => probe.fn = "checkPermission"
            /\ probe.result = MsgAdminRequired => probe.fn = "checkAdmin"
            /\ probe.result = Null <=> (CheckedSocket.userID # 0 /\ CheckedRoleHolds))
    /\ [][sockets' = sockets]_vars

\* a socket with the admin role on it and no user id was told to log in
C16_Witness ==
    /\ probe.fn = "checkPermission" /\ probe.permission = "monitor:read"
    /\ CheckedSocket.userID = 0 /\ CheckedSocket.userRole = "admin"
    /\ probe.result = MsgNotLoggedIn

\* ==================================================================
\* The settings events of admins, one call after the other
\* ==================================================================
InitSettings ==
    /\ InitWith(BoundSockets, <<>>)
    /\ settings \in EnabledSettings \cup {DisabledSettings}

\* a call is sent when the one before was answered; its handler takes the
\* first slot
NextSettingsSeq ==
    \/ \E sock \in SocketIds : AllQuiet /\ GetOidcSettingsStart(1, sock)
    \/ \E t \in TaskIds : GetOidcSettingsRead(t)
    \/ \E sock \in SocketIds, data \in SaveInputs :
        AllQuiet /\ SaveOidcSettingsStart(1, sock, data)
    \/ \E t \in TaskIds : SaveOidcSettingsSecret(t)
    \/ \E t \in TaskIds : SaveOidcSettingsSet(t)

SpecSettingsSeq == InitSettings /\ [][NextSettingsSeq]_vars

\* ==================================================================
\* Properties of the settings events
\* ==================================================================

\* the payload holds values of the kinds the settings are made of: an array
\* of groups and one of the two roles
WellFormed(data) ==
    data.oidcEntraAllowedGroups[1] = "array" /\ data.oidcEntraDefaultRole \in {"admin", "viewer"}

\* handler t sends its answer in this step
Answers(t, op) == task[t].op = op /\ task[t].pc # "idle" /\ task'[t].pc = "idle"

\* C17: when the answer ok:true to a saveOidcSettings with a well-formed
\* payload d is followed at once by the answer of a getOidcSettings, that
\* answer is ok:true and carries the tenant id, client id, allowed groups,
\* default role and automatic creation flag of d.
C17_SaveThenGetRoundTrip ==
    [][\A t \in TaskIds :
        (/\ answer.op = "saveOidcSettings" /\ answer.ok /\ WellFormed(answer.body)
         /\ Answers(t, "getOidcSettings"))
        => /\ answer'.op = "getOidcSettings" /\ answer'.ok
           /\ answer'.body.oidcEntraTenantId = answer.body.oidcEntraTenantId
           /\ answer'.body.oidcEntraClientId = answer.body.oidcEntraClientId
           /\ answer'.body.oidcEntraAllowedGroups = answer.body.oidcEntraAllowedGroups[2]
           /\ answer'.body.oidcEntraDefaultRole = answer.body.oidcEntraDefaultRole
           /\ answer'.body.oidcEntraAutoCreateUsers = answer.body.oidcEntraAutoCreateUsers
      ]_vars

\* settings with empty tenant and client id, an empty group list and the
\* automatic creation switched off were saved and then read back
C17_Witness ==
    /\ answer.op = "getOidcSettings" /\ answer.ok
    /\ answer.body.oidcEntraTenantId = "" /\ answer.body.oidcEntraClientId = ""
    /\ ~answer.body.oidcEntraAutoCreateUsers /\ ~answer.body.oidcEntraEnabled
    /\ answer.body.oidcEntraClientSecret = SecretMask
    /\ settings.oidcEntraAllowedGroups = <<"G2", "G1">>

\* C18: the answer of getOidcSettings carries the placeholder when a
\* non-empty secret is stored and the empty string when none is, never the
\* secret; and no step of a saveOidcSettings whose payload has the
\* placeholder or nothing as secret changes the stored secret.
C18_SecretMaskedAndKept ==
    [][\A t \in TaskIds :
        /\ Answers(t, "getOidcSettings") =>
            /\ answer'.ok
            /\ answer'.body.oidcEntraClientSecret =
                IF settings.oidcEntraClientSecret = "" THEN "" ELSE SecretMask
            /\ settings.oidcEntraClientSecret # ""
                => answer'.body.oidcEntraClientSecret # settings.oidcEntraClientSecret
        /\ (/\ task[t].op = "saveOidcSettings"
            /\ task[t].data.oidcEntraClientSecret \in {"", SecretMask})
            => settings'.oidcEntraClientSecret = settings.oidcEntraClientSecret
      ]_vars

\* a save that echoed the placeholder was accepted and the secret stored
\* before is still there
C18_Witness ==
    /\ answer.op = "saveOidcSettings" /\ answer.ok
    /\ answer.body.oidcEntraClientSecret = SecretMask /\ answer.body.oidcEntraEnabled
    /\ settings.oidcEntraClientSecret = "s1" /\ settings.oidcEntraTenantId = "t1"

\* enabling is asked for without all it needs: tenant id, client id, and a
\* secret either stored or in the payload
LacksForEnabling(data) ==
    /\ data.oidcEntraEnabled
    /\ \/ data.oidcEntraTenantId = "" \/ data.oidcEntraClientId = ""
       \/ (settings.oidcEntraClientSecret = "" /\ data.oidcEntraClientSecret = "")

\* C19: a saveOidcSettings that enables SSO without tenant id or without
\* client id is answered ok:false with nothing stored; one that reaches the
\* look at the stored secret with none stored and none in the payload is
\* answered ok:false there and the settings stay as they are; and one with
\* tenant id, client id and the secret 's1' is answered ok:true with 's1'
\* stored.
C19_EnablingNeedsTenantClientSecret ==
    /\ []((answer.op = "saveOidcSettings" /\ answer.body.oidcEntraEnabled
            /\ (answer.body.oidcEntraTenantId = "" \/ answer.body.oidcEntraClientId = ""))
          => (~answer.ok /\ ~answer.wrote))
    /\ [][\A t \in TaskIds :
            /\ (task[t].op = "saveOidcSettings" /\ task[t].pc = "secret"
                    /\ LacksForEnabling(task[t].data) /\ task'[t] # task[t])
                => /\ settings' = settings
                   /\ answer'.op = "saveOidcSettings" /\ ~answer'.ok /\ ~answer'.wrote
                   /\ answer'.body = task[t].data
            /\ (Answers(t, "saveOidcSettings") /\ task[t].data.oidcEntraEnabled
                    /\ task[t].data.oidcEntraTenantId # "" /\ task[t].data.oidcEntraClientId # ""
                    /\ task[t].data.oidcEntraClientSecret = "s1")
                => (answer'.ok /\ settings'.oidcEntraClientSecret = "s1"
                    /\ settings'.oidcEntraEnabled)
       ]_vars

\* with no secret stored: enabling without a secret was refused and the
\* settings are still those of the start
C19_Witness ==
    /\ answer.op = "saveOidcSettings" /\ ~answer.ok /\ answer.msg = MsgSecretRequired
    /\ answer.body.oidcEntraTenantId = "t1" /\ answer.body.oidcEntraClientId = "c1"
    /\ settings = DisabledSettings

\* ==================================================================
\* User management from the one session that is logged in
\* ==================================================================

\* the first admin has logged in on the first socket, nobody else has
SoleSession ==
    [UnboundSockets EXCEPT !["s1"] = [userID |-> 1, userRole |-> "admin"]]

InitSoleSession ==
    /\ InitWith(SoleSession, IssuedCodes)
    /\ settings \in {c \in EnabledSettings :
                        c.oidcEntraAllowedGroups = <<>> /\ c.oidcEntraAutoCreateUsers}

\* every call that gets past checkLogin comes from the session of user 1
SpecSoleSession == InitSoleSession /\ [][NextUserAdminSeq]_vars

\* C20: no deleteUser aimed at the row of the calling user, the id sent as
\* a number or as a string, gets past the checks of the handler, and the row
\* of the caller stays active.
C20_SelfDeleteRejected ==
    /\ \A t \in TaskIds :
        (task[t].op = "deleteUser" /\ task[t].pc # "idle") => SqlId(task[t].userId) # 1
    /\ users[1].active

\* ==================================================================
\* The effect of a deleteUser that succeeds
\* ==================================================================

\* C21: the store of a deleteUser sets active to false on the row it aims at
\* and changes nothing else; its purge, after which ok:true is answered,
\* finds that row still there and inactive, removes the login codes of that
\* user, all of them, and leaves every other login code and every user row
\* as it was.
C21_DeleteMarksInactiveAndPurges ==
    [][\A t \in TaskIds :
        LET u == SqlId(task[t].userId) IN
        /\ (task[t].op = "deleteUser" /\ task[t].pc = "store" /\ task'[t].pc # "store") =>
            /\ u \in DOMAIN users
            /\ users' = [users EXCEPT ![u].active = FALSE]
            /\ loginCodes' = loginCodes
        /\ (task[t].op = "deleteUser" /\ task[t].pc = "purge" /\ task'[t].pc # "purge") =>
            /\ answer'.op = "deleteUser" /\ answer'.ok
            /\ users' = users
            /\ u \in DOMAIN users' /\ ~users'[u].active
            /\ \A c \in DOMAIN loginCodes' : loginCodes'[c].user_id # u
            /\ DOMAIN loginCodes' \subseteq DOMAIN loginCodes
            /\ \A c \in DOMAIN loginCodes :
                loginCodes[c].user_id # u => (c \in DOMAIN loginCodes' /\ loginCodes'[c] = loginCodes[c])
      ]_vars

\* alice was deleted: her row is inactive, her login code is gone, the one
\* of carol is still there
C21_Witness ==
    /\ answer.op = "deleteUser" /\ answer.ok /\ answer.wrote
    /\ ~users[2].active /\ users[2].entra_oid = "o1"
    /\ 1 \notin DOMAIN loginCodes
    /\ 2 \in DOMAIN loginCodes /\ loginCodes[2] = IssuedCodes[2]

\* ==================================================================
\* The pending session of an answered callback
\* ==================================================================

\* request r is answered in this step
AnswersCallback(r) == cb[r].pc # "done" /\ cb'[r].pc = "done"

\* C22: when a callback request that carried a state registered before it
\* arrived is answered, at whichever step, that state is not in authSessions.
C22_AnsweredStateConsumed ==
    [][\A r \in CallbackIds :
        (AnswersCallback(r) /\ cb'[r].state \in 1..nextState)
            => cb'[r].state \notin DOMAIN authSessions']_vars

\* ==================================================================
\* The last instant of a pending session
\* ==================================================================

\* C23: a callback received at a time that is the expiresAt of the session
\* registered under its state, or later, is answered at once with an
\* oidc_error and goes no further: no session handed on, no token exchange.
C23_UnusableAtExpiresAt ==
    [][\A r \in CallbackIds :
        (/\ Receives(r)
         /\ IssuedExpiry(cb'[r].state) # NoTime
         /\ IssuedExpiry(cb'[r].state) <= now)
        => /\ cb'[r].pc = "done"
           /\ cb'[r].result.param = "oidc_error"
           /\ ~cb'[r].exchanged]_vars

\* ==================================================================
\* The login code of a user who is gone
\* ==================================================================

\* the stored code c can no longer be found by the lookup of an exchange
Spent(c) == c \notin DOMAIN loginCodes \/ loginCodes[c].used

\* the exchange in slot t was answered "User not found or inactive"
UserUnavailable(t) ==
    task[t].op = "loginByOidcCode" /\ task[t].pc = "done" /\ task[t].msg = MsgUserUnavailable

\* C24: an exchange looks for the owning user only after it has stored its
\* code as used; when no active user is found it answers ok:false and leaves
\* the code used and every socket as it was; the code of such an answer stays
\* used, and the lookup of every exchange that comes after it finds nothing
\* and is answered ok:false.
C24_CodeSpentBeforeUserLookup ==
    /\ [](\A t \in TaskIds :
            /\ (task[t].op = "loginByOidcCode" /\ task[t].pc = "findUser")
                => (task[t].wrote /\ Spent(task[t].code))
            /\ UserUnavailable(t) => (~task[t].ok /\ Spent(task[t].code)))
    /\ [][\A t \in TaskIds :
            /\ (task[t].op = "loginByOidcCode" /\ task[t].pc = "findUser"
                    /\ task'[t].pc = "done" /\ ~task'[t].ok)
                => /\ task'[t].msg = MsgUserUnavailable
                   /\ sockets' = sockets /\ loginCodes' = loginCodes
            /\ (task[t].op = "loginByOidcCode" /\ task[t].pc = "findCode"
                    /\ task'[t].pc # "findCode"
                    /\ \E t2 \in TaskIds : UserUnavailable(t2) /\ task[t2].code = task[t].code)
                => /\ task'[t].pc = "done" /\ ~task'[t].ok
                   /\ task'[t].msg = MsgCodeUnknown
                   /\ sockets' = sockets
       ]_vars

\* the code of carol, whose account is inactive, was exchanged twice within
\* its lifetime: the first call found no user, the second no code
C24_Witness ==
    \E t1, t2 \in TaskIds :
        /\ UserUnavailable(t1) /\ task[t1].code = 2
        /\ Exchanged(t2, 2) /\ ~task[t2].ok /\ task[t2].msg = MsgCodeUnknown
        /\ loginCodes[2].used /\ now < loginCodes[2].expires_at
        /\ \A s \in SocketIds : sockets[s].userID = 0

\* ==================================================================
\* The login code that has expired
\* ==================================================================

\* the exchange in slot t was answered "Login code expired"
AnsweredExpired(t) ==
    task[t].op = "loginByOidcCode" /\ task[t].pc = "done" /\ task[t].msg = MsgCodeExpired

\* C25: an exchange whose lookup finds an unused code with expires_at before
\* now goes on to delete it and to nothing else; the delete removes that row
\* and no other, binds no socket and is followed by the answer ok:false; and
\* the lookup of every exchange that comes after that answer finds nothing
\* and is answered ok:false.
C25_ExpiredCodeDeletedAndRefused ==
    /\ [](\A t \in TaskIds : AnsweredExpired(t) => ~task[t].ok)
    /\ [][\A t \in TaskIds :
            /\ (task[t].op = "loginByOidcCode" /\ task[t].pc = "findCode"
                    /\ task'[t].pc # "findCode" /\ CodeRowUnused(task[t].code)
                    /\ loginCodes[task[t].code].expires_at < now)
                => /\ task'[t].pc = "trash"
                   /\ sockets' = sockets
            /\ (task[t].op = "loginByOidcCode" /\ task[t].pc = "trash" /\ task'[t].pc # "trash")
                => /\ AnsweredExpired(t)' /\ ~task'[t].ok
                   /\ DOMAIN loginCodes' = DOMAIN loginCodes \ {task[t].code}
                   /\ \A c \in DOMAIN loginCodes' : loginCodes'[c] = loginCodes[c]
                   /\ sockets' = sockets
            /\ (task[t].op = "loginByOidcCode" /\ task[t].pc = "findCode"
                    /\ task'[t].pc # "findCode"
                    /\ \E t2 \in TaskIds : AnsweredExpired(t2) /\ task[t2].code = task[t].code)
                => /\ task'[t].pc = "done" /\ ~task'[t].ok
                   /\ task'[t].msg = MsgCodeUnknown
                   /\ sockets' = sockets
       ]_vars

\* the code of alice was sent after its lifetime and then once more: its row
\* is gone, the other code is still stored, no socket is bound
C25_Witness ==
    \E t1, t2 \in TaskIds :
        /\ AnsweredExpired(t1) /\ task[t1].code = 1
        /\ Exchanged(t2, 1) /\ ~task[t2].ok /\ task[t2].msg = MsgCodeUnknown
        /\ DOMAIN loginCodes = {2} /\ ~loginCodes[2].used
        /\ \A s \in SocketIds : sockets[s].userID = 0

\* ==================================================================
\* What the caller learns about a code that cannot be exchanged
\* ==================================================================

\* the exchange in slot t was sent a code string and ended before it stored
\* anything: its code was not there, was used already, or had expired
RefusedAtCode(t) ==
    /\ task[t].op = "loginByOidcCode" /\ task[t].pc = "done"
    /\ task[t].code # 0 /\ ~task[t].wrote

\* callback({ ok, msg, role }) as the caller receives it
ResponseOf(t) == [ok |-> task[t].ok, msg |-> task[t].msg, role |-> task[t].respRole]

\* C26: any two exchanges refused because the code was not there, was used
\* or had expired received the same response.
C26_RefusalsIndistinguishable ==
    \A t1, t2 \in TaskIds :
        (RefusedAtCode(t1) /\ RefusedAtCode(t2)) => ResponseOf(t1) = ResponseOf(t2)

\* ==================================================================
\* The order of the steps of one callback
\* ==================================================================

\* where a request that has not been answered may be after its next step
NextSteps(pc) ==
    CASE pc = "idle" -> {"settings"}
      [] pc = "settings" -> {"discover"}
      [] pc = "discover" -> {"exchange"}
      [] pc = "exchange" -> {"findUser"}
      [] pc = "findUser" -> {"checkUsername", "storeUser"}
      [] pc = "checkUsername" -> {"storeUser"}
      [] pc = "storeUser" -> {"storeCode"}
      [] pc = "storeCode" -> {}
      [] OTHER -> {}

\* request r holds the session of a state it found registered
StateValidated(r) == cb[r].got # NoState /\ cb[r].got = cb[r].state /\ cb[r].session # NoSession

\* request r has found SSO enabled
ProviderEnabled(r) == cb[r].conf.enabled

\* the user information request r took from its token is that of a token
\* whose groups pass the check against the groups r read
Authorized(r) ==
    \E claims \in IdTokens :
        /\ cb[r].info = [oid |-> UserInfo(claims).oid, email |-> UserInfo(claims).email,
                         name |-> UserInfo(claims).name]
        /\ GroupCheckPasses(cb[r].conf.allowedGroups, UserInfo(claims).groups)

\* C27: a request that has not been answered moves from each step to the
\* next of the fixed order or is answered; it is before the token exchange
\* only with its state validated, past it only with SSO found enabled, the
\* token exchanged and the groups authorized, and at the store of the login
\* code only with its user stored; the user table changes only in the store
\* of such a request and the login codes only in its last step, which
\* answers with the code.
C27_CallbackStepsInOrder ==
    /\ [](\A r \in CallbackIds :
            /\ cb[r].pc \in {"settings", "discover", "exchange"}
                => (StateValidated(r) /\ ~cb[r].exchanged /\ ~cb[r].wroteUser)
            /\ cb[r].pc \in {"discover", "exchange"} => ProviderEnabled(r)
            /\ cb[r].pc \in {"findUser", "checkUsername", "storeUser", "storeCode"}
                => /\ StateValidated(r) /\ ProviderEnabled(r)
                   /\ cb[r].exchanged /\ Authorized(r)
            /\ cb[r].pc \in {"findUser", "checkUsername", "storeUser"} => ~cb[r].wroteUser
            /\ cb[r].pc = "storeCode" => (cb[r].wroteUser /\ cb[r].user.id \in DOMAIN users)
            /\ cb[r].wroteUser => cb[r].exchanged
            /\ (cb[r].pc = "done" /\ cb[r].result.param = "oidc_code")
                => (cb[r].wroteUser /\ cb[r].exchanged /\ cb[r].got = cb[r].state))
    /\ [][/\ \A r \in CallbackIds :
                cb'[r].pc # cb[r].pc => cb'[r].pc \in NextSteps(cb[r].pc) \cup {"done"}
          /\ users' # users =>
                \E r \in CallbackIds : cb[r].pc = "storeUser" /\ cb'[r].pc = "storeCode"
          /\ loginCodes' # loginCodes =>
                \E r \in CallbackIds :
                    /\ cb[r].pc = "storeCode" /\ cb'[r].pc = "done"
                    /\ cb'[r].result.param = "oidc_code"
       ]_vars

\* with a group required, one request came through all the steps for a
\* member of that group and was answered with a login code of her row
C27_Witness ==
    \E r \in CallbackIds :
        /\ settings.oidcEntraAllowedGroups = <<"G1">>
        /\ cb[r].pc = "done" /\ cb[r].result.param = "oidc_code"
        /\ cb[r].exchanged /\ cb[r].wroteUser /\ cb[r].got = cb[r].state
        /\ loginCodes[cb[r].result.code].user_id = 2
        /\ users[2].last_login # NoTime

\* ==================================================================
\* SSO switched off and on while logins are on their way
\* ==================================================================

\* what the settings page sends when an admin flips the switch: the tenant
\* and client id that are stored and the placeholder of the secret
SwitchInputs ==
    {d \in SaveInputs : /\ d.oidcEntraTenantId = "t1" /\ d.oidcEntraClientId = "c1"
                        /\ d.oidcEntraClientSecret = SecretMask
                        /\ d.oidcEntraDefaultRole = "admin"
                        /\ d.oidcEntraAutoCreateUsers = FALSE}

\* SSO is on, open to every group, accounts are created on first login
InitSwitch ==
    /\ InitWith(BoundSockets, <<>>)
    /\ settings \in {c \in EnabledSettings :
                        c.oidcEntraAllowedGroups = <<>> /\ c.oidcEntraAutoCreateUsers}

\* the provider answering for a subject that has no account
NewcomerTokens == {c \in IdTokens : c.oid = Null}

\* the provider sending the browser back without an error parameter
PlainQueries == {q \in QueryErrors : q.error = Null}

\* the two routes, serving browsers that come back from the provider with
\* the state they were sent there with, and the first admin saving the
\* settings now and then
NextSwitch ==
    \/ \E l \in LoginIds, req \in ProxiedContexts : LoginReceive(l, req)
    \/ \E l \in LoginIds : LoginDiscoverFails(l)
    \/ \E l \in LoginIds : LoginRegister(l)
    \/ \E r \in CallbackIds, s \in 1..nextState, q \in PlainQueries : CallbackReceive(r, s, q)
    \/ \E r \in CallbackIds : CallbackSettings(r)
    \/ \E r \in CallbackIds : CallbackDiscover(r)
    \/ \E r \in CallbackIds : CallbackDiscoverFails(r)
    \/ \E r \in CallbackIds, claims \in NewcomerTokens : CallbackExchange(r, claims)
    \/ \E r \in CallbackIds : CallbackExchangeFails(r)
    \/ \E r \in CallbackIds : CallbackFindUser(r)
    \/ \E r \in CallbackIds : CallbackCheckUsername(r)
    \/ \E r \in CallbackIds : CallbackStoreUser(r)
    \/ \E r \in CallbackIds : CallbackStoreCode(r)
    \/ \E data \in SwitchInputs : AllQuiet /\ SaveOidcSettingsStart(1, "s1", data)
    \/ SaveOidcSettingsSecret(1)
    \/ SaveOidcSettingsSet(1)

SpecSwitch == InitSwitch /\ [][NextSwitch]_vars

\* C28: a callback that holds the session of its state and, reading the
\* settings, finds SSO not enabled is answered with "Entra ID SSO is not
\* enabled": it never gets to the provider, no user row and no login code is
\* written, and its state, registered by a login when SSO was on, is gone
\* from authSessions.
C28_DisabledMidFlowFailsClosed ==
    /\ [](\A r \in CallbackIds :
            (cb[r].pc = "done" /\ cb[r].result.value = MsgSsoDisabled)
                => /\ RejectedWith(cb[r], MsgSsoDisabled)
                   /\ cb[r].got \in 1..nextState
                   /\ cb[r].got \notin DOMAIN authSessions)
    /\ [][\A r \in CallbackIds :
            (cb[r].pc = "settings" /\ cb'[r].pc # "settings" /\ settings.oidcEntraEnabled # TRUE)
                => /\ RejectedWith(cb'[r], MsgSsoDisabled)
                   /\ users' = users /\ loginCodes' = loginCodes /\ nextCode' = nextCode
                   /\ cb[r].got \in 1..nextState
                   /\ cb[r].got \notin DOMAIN authSessions'
       ]_vars

\* a login registered its session, an admin switched SSO off, and the
\* callback of that login was turned away
C28_Witness ==
    \E r \in CallbackIds, l \in LoginIds :
        /\ lg[l].status = "302 provider" /\ lg[l].state = cb[r].got
        /\ RejectedWith(cb[r], MsgSsoDisabled)
        /\ answer.op = "saveOidcSettings" /\ answer.ok /\ ~answer.body.oidcEntraEnabled
        /\ settings.oidcEntraEnabled = FALSE
        /\ users = InitUsers /\ loginCodes = <<>>

\* ==================================================================
\* Logins through the proxy and past it, at the same time
\* ==================================================================

\* the two routes serving requests with and without the forwarded headers
NextHeaders == Requests(RequestContexts, NewcomerTokens)

SpecHeaders == Init /\ [][NextHeaders]_vars

\* the /login request that registered state s stored this session
StoredBy(l, s) == lg[l].state = s /\ s # NoState /\ lg[l].stored # NoSession

\* C29: the token exchange of a callback is called with the redirect URI,
\* the code verifier and the nonce of the session that the /login request
\* which drew the callback's state stored, and with those of no other.
C29_ExchangeUsesStoredSession ==
    \A r \in CallbackIds :
        cb[r].exchanged =>
            \E l \in LoginIds :
                /\ StoredBy(l, cb[r].got)
                /\ cb[r].used = [redirectUri |-> lg[l].stored.redirectUri,
                                 code_verifier |-> lg[l].stored.codeVerifier,
                                 nonce |-> lg[l].stored.nonce]
                /\ \A l2 \in LoginIds : StoredBy(l2, cb[r].got) => l2 = l

\* one login came through the proxy and one past it; the callbacks came in
\* the other order and each exchanged with the redirect URI of its own login
C29_Witness ==
    \E l1, l2 \in LoginIds : \E r1, r2 \in CallbackIds :
        /\ l1 < l2 /\ r2 < r1
        /\ StoredBy(l1, cb[r1].got) /\ StoredBy(l2, cb[r2].got)
        /\ cb[r1].exchanged /\ cb[r2].exchanged
        /\ lg[l1].stored.redirectUri # lg[l2].stored.redirectUri
        /\ cb[r1].used.redirectUri = lg[l1].stored.redirectUri
        /\ cb[r2].used.redirectUri = lg[l2].stored.redirectUri
        /\ cb[r1].used.nonce # cb[r2].used.nonce

\* ==================================================================
\* The login leg by itself
\* ==================================================================

\* settings as they are between the first and the second Settings.set of a
\* saveOidcSettings that switches SSO on after the tenant id had been
\* cleared: enabled already, the tenant id not yet stored
HalfSavedSettings ==
    [oidcEntraEnabled |-> TRUE, oidcEntraTenantId |-> "", oidcEntraClientId |-> "c1",
     oidcEntraClientSecret |-> "s1", oidcEntraAllowedGroups |-> <<>>,
     oidcEntraDefaultRole |-> "viewer", oidcEntraAutoCreateUsers |-> TRUE]

InitLogins ==
    /\ InitWith(UnboundSockets, <<>>)
    /\ settings \in EnabledSettings \cup {DisabledSettings, HalfSavedSettings}

\* the clock, the sweep and the /login route
NextLogins ==
    \/ \E d \in {1, SessionTTL} : Tick(d)
    \/ Sweep
    \/ \E l \in LoginIds, req \in RequestContexts : LoginReceive(l, req)
    \/ \E l \in LoginIds : LoginDiscoverFails(l)
    \/ \E l \in LoginIds : LoginRegister(l)

SpecLogins == InitLogins /\ [][NextLogins]_vars

\* the settings lack what a login needs
Misconfigured ==
    Falsy(settings.oidcEntraTenantId) \/ Falsy(settings.oidcEntraClientId)
        \/ Falsy(settings.oidcEntraClientSecret)

\* C30: a /login request that finds SSO disabled is answered 400, one that
\* finds tenant id, client id or secret missing 500, one whose discovery
\* fails with the oidc_error redirect, and none of these steps changes
\* authSessions; the step that sends the browser to the provider adds one
\* entry, under a state no login drew before, with expiresAt ten minutes
\* from now, and leaves every entry that was there as it was.
C30_LoginFrame ==
    [][\A l \in LoginIds :
        /\ (lg[l].pc = "idle" /\ lg'[l].pc # "idle") =>
            /\ authSessions' = authSessions /\ nextState' = nextState
            /\ settings.oidcEntraEnabled # TRUE
                => (lg'[l].pc = "done" /\ lg'[l].status = "400")
            /\ (settings.oidcEntraEnabled = TRUE /\ Misconfigured)
                => (lg'[l].pc = "done" /\ lg'[l].status = "500")
            /\ lg'[l].pc = "done" => lg'[l].status \in {"400", "500"}
        /\ (lg[l].pc = "discover" /\ lg'[l].pc # "discover") =>
            /\ lg'[l].pc = "done" /\ lg'[l].status \in {"302 oidc_error", "302 provider"}
            /\ lg'[l].status = "302 oidc_error"
                => (authSessions' = authSessions /\ nextState' = nextState)
            /\ lg'[l].status = "302 provider" =>
                LET s == lg'[l].state IN
                /\ s \notin DOMAIN authSessions /\ s \notin 0..nextState
                /\ \A k \in LoginIds : k # l => lg[k].state # s
                /\ DOMAIN authSessions' = DOMAIN authSessions \cup {s}
                /\ authSessions'[s].expiresAt = now + 10 * 60 * 1000
                /\ authSessions'[s].redirectUri = lg[l].redirectUri
                /\ \A k \in DOMAIN authSessions : authSessions'[k] = authSessions[k]
      ]_vars

\* a second login was registered a while after a first: both sessions are
\* pending, each with its own expiry and redirect URI
C30_Witness ==
    /\ DOMAIN authSessions = {1, 2}
    /\ authSessions[1].expiresAt = SessionTTL
    /\ authSessions[2].expiresAt = 1 + SessionTTL
    /\ authSessions[1].redirectUri # authSessions[2].redirectUri
    /\ \A l \in LoginIds : lg[l].status = "302 provider"

\* ==================================================================
\* The periodic sweep
\* ==================================================================

\* C31: a run of the sweep removes the entries whose expiresAt lies before
\* now, all of them, keeps every other entry as it is, adds none, and
\* changes nothing but authSessions.
C31_SweepRemovesExactlyTheExpired ==
    [][Sweep =>
        /\ DOMAIN authSessions' \subseteq DOMAIN authSessions
        /\ \A k \in DOMAIN authSessions :
            IF authSessions[k].expiresAt < now
            THEN k \notin DOMAIN authSessions'
            ELSE k \in DOMAIN authSessions' /\ authSessions'[k] = authSessions[k]
        /\ UNCHANGED <<now, ticks, nextState, settings, users, loginCodes, nextCode,
                       sockets, lg, cb, task, probe, answer>>
      ]_vars

\* of two sessions nobody came back for, the sweep has removed the one that
\* had expired and kept the one that had not
C31_Witness ==
    /\ \A l \in LoginIds : lg[l].status = "302 provider"
    /\ DOMAIN authSessions = {2}
    /\ lg[1].expiresAt < now
    /\ authSessions[2].expiresAt > now

\* ==================================================================
\* The router with a clock that advances and a timer that fires
\* ==================================================================

\* nobody is signed in; SSO is on, open to every group, accounts are created
\* on first login
InitSweep ==
    /\ InitWith(UnboundSockets, <<>>)
    /\ settings \in {c \in EnabledSettings :
                        c.oidcEntraAllowedGroups = <<>> /\ c.oidcEntraAutoCreateUsers}

\* the routes answering for a newcomer, the clock and the sweep
NextSweep == Router(ProxiedContexts, NewcomerTokens)

\* the clock goes on as long as the model lets it, and setInterval keeps
\* calling the sweep
SpecSweep ==
    /\ InitSweep /\ [][NextSweep]_vars
    /\ WF_vars(\E d \in {1, SessionTTL} : Tick(d))
    /\ WF_vars(Sweep)

\* the clock of the model has made its last advance and stands at or before
\* the expiresAt of the session pending under s
ClockStoppedBefore(s) ==
    /\ ticks = MaxTicks
    /\ s \in DOMAIN authSessions /\ ~(authSessions[s].expiresAt < now)

\* C32: every session pending in authSessions is absent from it in the end,
\* unless the clock stops before the session has expired; and a session
\* whose expiresAt lies before now is absent after any run of the sweep.
C32_PendingSessionsGoAway ==
    /\ \A s \in 1..MaxLogins :
        (s \in DOMAIN authSessions) ~> (s \notin DOMAIN authSessions \/ ClockStoppedBefore(s))
    /\ [][Sweep =>
            \A s \in DOMAIN authSessions :
                authSessions[s].expiresAt < now => s \notin DOMAIN authSessions']_vars

\* a session that no callback ever asked for has expired and is gone
C32_Witness ==
    \E l \in LoginIds :
        /\ lg[l].status = "302 provider" /\ lg[l].expiresAt < now
        /\ lg[l].state \notin DOMAIN authSessions
        /\ \A r \in CallbackIds : cb[r].state # lg[l].state

\* ==================================================================
\* The sweep and the acceptance of callbacks
\* ==================================================================

\* what a registry that is never swept would answer a callback with at this
\* moment, told from the requests alone: some /login stored a session under
\* s, its expiresAt is not before now, and no callback has taken it
LiveUnclaimed(s) ==
    \E l \in LoginIds :
        /\ lg[l].stored # NoSession /\ lg[l].state = s
        /\ ~(lg[l].stored.expiresAt < now)
        /\ \A r \in CallbackIds : cb[r].got # s

\* C33: the sweep does not change which callbacks are accepted. Whatever
\* sweeps have run or not run, a callback passes the state validation
\* exactly if it brings no provider error and a state that a /login stored,
\* that has not expired and that no callback took before; every such state
\* is still in authSessions with the session the /login stored; and the
\* sweep itself touches no user, no login code and no request.
C33_SweepKeepsAcceptance ==
    /\ [](\A s \in 1..MaxLogins :
            LiveUnclaimed(s) =>
                /\ s \in DOMAIN authSessions
                /\ \E l \in LoginIds : lg[l].state = s /\ authSessions[s] = lg[l].stored)
    /\ [][\A r \in CallbackIds, s \in 0..BogusState, q \in QueryErrors :
            CallbackReceive(r, s, q) =>
                (cb'[r].pc = "settings" <=> (Falsy(q.error) /\ LiveUnclaimed(s)))]_vars
    /\ [][Sweep => UNCHANGED <<users, loginCodes, nextCode, cb, lg, now>>]_vars

\* a session was swept, a callback for it came later and was refused, and
\* another callback was accepted and ended with a login code
C33_Witness ==
    \E l \in LoginIds, r, a \in CallbackIds :
        /\ lg[l].stored # NoSession /\ lg[l].stored.expiresAt < now
        /\ cb[r].state = lg[l].state /\ cb[r].error = Null /\ cb[r].got = NoState
        /\ cb[r].result.value = MsgInvalidSession
        /\ cb[a].got # NoState /\ cb[a].result.param = "oidc_code"

\* ==================================================================
\* The roles of the user rows
\* ==================================================================

\* payloads of saveOidcSettings that keep SSO as it is and name a default
\* role, or none
RolePayloads ==
    [oidcEntraEnabled : {TRUE}, oidcEntraTenantId : {"t1"}, oidcEntraClientId : {"c1"},
     oidcEntraClientSecret : {SecretMask}, oidcEntraAllowedGroups : {<<"array", <<>>>>},
     oidcEntraDefaultRole : {"", "owner"}, oidcEntraAutoCreateUsers : {TRUE}]

\* an admin saving the settings and setting alice's role, one call after
\* the other, while newcomers log in through the provider
NextRoles ==
    \/ \E l \in LoginIds, req \in ProxiedContexts : LoginReceive(l, req)
    \/ \E l \in LoginIds : LoginRegister(l)
    \/ \E r \in CallbackIds, s \in 1..nextState, q \in PlainQueries : CallbackReceive(r, s, q)
    \/ \E r \in CallbackIds : CallbackSettings(r)
    \/ \E r \in CallbackIds : CallbackDiscover(r)
    \/ \E r \in CallbackIds, claims \in NewcomerTokens : CallbackExchange(r, claims)
    \/ \E r \in CallbackIds : CallbackFindUser(r)
    \/ \E r \in CallbackIds : CallbackCheckUsername(r)
    \/ \E r \in CallbackIds : CallbackStoreUser(r)
    \/ \E r \in CallbackIds : CallbackStoreCode(r)
    \/ \E data \in RolePayloads : AllQuiet /\ SaveOidcSettingsStart(1, "s1", data)
    \/ SaveOidcSettingsSecret(1)
    \/ SaveOidcSettingsSet(1)
    \/ \E role \in RoleInputs : AllQuiet /\ SetUserRoleStart(2, "s1", <<"number", 2>>, role)
    \/ SetUserRoleCount(2)
    \/ SetUserRoleFind(2)
    \/ SetUserRoleStore(2)

SpecRoles == InitSwitch /\ [][NextRoles]_vars

\* C34: the role of every user row is 'admin' or 'viewer'.
C34_RolesAreAdminOrViewer ==
    \A i \in DOMAIN users : users[i].role \in {"admin", "viewer"}

\* ==================================================================
\* The stored settings while SSO is switched on
\* ==================================================================

\* C35: between the calls of saveOidcSettings, settings stored with
\* oidcEntraEnabled true have a tenant id, a client id and a client secret
\* that are not empty.
C35_EnabledHasCredentials ==
    (AllQuiet /\ settings.oidcEntraEnabled = TRUE) =>
        /\ ~Falsy(settings.oidcEntraTenantId)
        /\ ~Falsy(settings.oidcEntraClientId)
        /\ ~Falsy(settings.oidcEntraClientSecret)

\* ==================================================================
\* The login codes under exchange, callbacks and user management
\* ==================================================================

\* clients exchanging codes, the first admin deleting alice or bob, and a
\* browser coming back from the provider, all overlapping at their awaits
NextCodes ==
    \/ Tick(CodeTTL)
    \/ \E t \in TaskIds, code \in CodeInputs : LoginByCodeStart(t, "s3", code)
    \/ \E t \in TaskIds : LoginByCodeFind(t)
    \/ \E t \in TaskIds : LoginByCodeTrash(t)
    \/ \E t \in TaskIds : LoginByCodeStore(t)
    \/ \E t \in TaskIds : LoginByCodeFindUser(t)
    \/ \E i \in {2, 3} : DeleteUserStart(2, "s1", <<"number", i>>)
    \/ DeleteUserFind(2)
    \/ DeleteUserCount(2)
    \/ DeleteUserStore(2)
    \/ DeleteUserPurge(2)
    \/ \E req \in ProxiedContexts : LoginReceive(1, req)
    \/ LoginRegister(1)
    \/ \E q \in PlainQueries : CallbackReceive(1, 1, q)
    \/ CallbackSettings(1)
    \/ CallbackDiscover(1)
    \/ \E claims \in FewTokens : CallbackExchange(1, claims)
    \/ CallbackFindUser(1)
    \/ CallbackCheckUsername(1)
    \/ CallbackStoreUser(1)
    \/ CallbackStoreCode(1)

SpecCodes == InitUserAdmin /\ [][NextCodes]_vars

\* C36: a login code row is created with used = false, and no step turns
\* the used flag of a row from true to false.
C36_UsedIsMonotonic ==
    [][\A c \in DOMAIN loginCodes' :
            IF c \in DOMAIN loginCodes
            THEN loginCodes[c].used => loginCodes'[c].used
            ELSE ~loginCodes'[c].used]_vars

\* a code was exchanged and is marked used, while a callback has stored a
\* new code and a deleteUser has removed the codes of its user
C36_Witness ==
    /\ \E c \in DOMAIN loginCodes : loginCodes[c].used
    /\ \E c \in DOMAIN loginCodes : c > Cardinality(DOMAIN IssuedCodes) /\ ~loginCodes[c].used
    /\ answer.op = "deleteUser" /\ answer.ok

\* ==================================================================
\* The external subject ids of the user rows
\* ==================================================================

\* no two rows of the user table hold the same entra_oid, null apart
OidsUnique ==
    \A i, j \in DOMAIN users :
        (i # j /\ users[i].entra_oid # Null) => users[i].entra_oid # users[j].entra_oid

\* C37: no two user rows, active or soft-deleted, share an external subject
\* id that is not null, and a callback stores a login code only for a user
\* that is not soft-deleted.
C37_OneRowPerSubjectNoCodeForDeleted ==
    /\ []OidsUnique
    /\ [][\A r \in CallbackIds :
            CallbackStoreCode(r) => users[cb[r].user.id].active]_vars

\* ==================================================================
\* Admin sessions whose user is demoted or deleted
\* ==================================================================

\* the first admin, on s1, changes the role of bob or deletes him; bob, on
\* s2, changes the role of alice or deletes her; each call is sent when the
\* one before was answered
NextStale ==
    \/ \E role \in {"admin", "viewer"} :
        AllQuiet /\ SetUserRoleStart(1, "s1", <<"number", 3>>, role)
    \/ AllQuiet /\ DeleteUserStart(1, "s1", <<"number", 3>>)
    \/ \E role \in {"admin", "viewer"} :
        AllQuiet /\ SetUserRoleStart(2, "s2", <<"number", 2>>, role)
    \/ AllQuiet /\ DeleteUserStart(2, "s2", <<"number", 2>>)
    \/ UserAdminSteps

SpecStale == InitUserAdmin /\ [][NextStale]_vars

\* the user bound to the socket is an active user whose stored role is admin
StoredAdmin(sock) ==
    \E i \in DOMAIN users :
        /\ users[i].id = sockets[sock].userID
        /\ users[i].active /\ users[i].role = "admin"

\* C38: a user management call succeeds only if the user bound to the
\* calling socket is, in the user table, an active admin. Under SpecStale
\* the calls about alice are the calls of s2.
C38_OnlyStoredAdminsSucceed ==
    [][\A t \in TaskIds :
        (task[t].userId = <<"number", 2>> /\ (SetUserRoleStore(t) \/ DeleteUserPurge(t)))
            => StoredAdmin("s2")]_vars

\* ==================================================================
\* The identity of the sockets under loginByOidcCode
\* ==================================================================
MsgExchangeFailed == "Authentication failed"

\* an awaited R.findOne, R.trash or R.store of the handler rejects: the
\* catch block answers
LoginByCodeStorageFails(t) ==
    /\ task[t].op = "loginByOidcCode"
    /\ task[t].pc \in {"findCode", "trash", "storeCode", "findUser"}
    /\ task' = [task EXCEPT ![t] = Respond(@, FALSE, MsgExchangeFailed, Null)]
    /\ UNCHANGED <<now, ticks, authSessions, nextState, settings, users, loginCodes,
                   nextCode, sockets, lg, cb, probe, answer>>

\* clients that are logged in already exchanging codes over a storage that
\* may fail, handlers overlapping at their awaits
NextBind ==
    \/ NextExchange
    \/ \E t \in TaskIds : LoginByCodeStorageFails(t)

SpecBind == InitUserAdmin /\ [][NextBind]_vars

\* the call of slot t is answered in this step
Answered(t) == task[t].pc # "done" /\ task'[t].pc = "done"

\* C39: a socket's userID and userRole change only in the step in which a
\* loginByOidcCode call of that socket is answered ok:true, and the call
\* answered ok:true leaves its socket bound to the id and the stored role of
\* the user that owns the code; a call answered ok:false changes no socket.
C39_IdentityFrame ==
    [][/\ \A s \in SocketIds :
            sockets'[s] # sockets[s] =>
                \E t \in TaskIds : Answered(t) /\ task[t].sock = s /\ task'[t].ok
       /\ \A t \in TaskIds :
            Answered(t) =>
                IF task'[t].ok
                THEN \E i \in DOMAIN users :
                        /\ users[i].id = task[t].codeBean.user_id /\ users[i].active
                        /\ sockets'[task[t].sock] =
                               [userID |-> users[i].id, userRole |-> users[i].role]
                        /\ task'[t].respRole = users[i].role
                ELSE sockets' = sockets
      ]_vars

\* the first admin's socket answered ok:true on alice's code and is alice's
\* now, a call on another socket was refused for carol's code, and that
\* socket is as it was
C39_Witness ==
    \E t, t2 \in TaskIds :
        /\ task[t].pc = "done" /\ task[t].ok /\ task[t].sock = "s1"
        /\ sockets["s1"] = [userID |-> 2, userRole |-> "viewer"]
        /\ task[t2].pc = "done" /\ ~task[t2].ok /\ task[t2].sock = "s2"
        /\ task[t2].msg = MsgUserUnavailable
        /\ sockets["s2"] = BoundSockets["s2"]

====
